---- MODULE Spec2Model ----
(***************************************************************************)
(* Model of the generator layer of three-forma-styli: the input validator, *)
(* the per-family token generators and the orchestrator `generate`.        *)
(*                                                                         *)
(* JavaScript objects whose key set is open (token maps, alpha schedules,  *)
(* Record<string, ...>) are sequences of [key, value] entries in insertion *)
(* order, with unique keys.  Objects with a fixed schema (modes, families, *)
(* token records) are TLA+ records; an optional property that is absent is *)
(* a field that is not in the record's DOMAIN.                             *)
(*                                                                         *)
(* Numbers are integers.  The two quantities for which a non-integer input *)
(* matters (a mode's `range` and an alpha fraction) are fixed-point: they  *)
(* are stored as a count of 1/Denom, so Fix(1) is the number 1.            *)
(***************************************************************************)
EXTENDS Integers, Sequences, FiniteSets, TLC

VARIABLES
    designSystem,        \* argument of generate
    userConfig,          \* second argument of generate
    pc,                  \* position inside generate
    error,               \* the ValidationError thrown, or NoError
    config,              \* merged GeneratorConfig, or NoConfig before the merge
    colorResult,
    spacingResult,
    gapResult,
    typographyResult,
    borderRadiusResult,
    borderWidthResult,
    timeResult,
    ir,                  \* the IR the caller holds: the value generate returned, or NoIR
    emptyResultOverrides, \* module level: the array emptyResult.modeInfo.overrides
    irShared,            \* the categories whose override list in `ir` is that very array
    kept,                \* an IR returned by an earlier call and kept by the caller
    mutated,             \* the caller has written to an IR it holds
    calls,               \* number of generate calls made so far
    cssConfig,           \* second argument of toCss
    cssBlocks,           \* the `blocks` array of the last toCss call
    css,                 \* the string the last toCss call returned, or NoCss
    cssBefore,           \* the string the toCss call before it returned, or NoCss
    now,                 \* the clock that `new Date()` reads
    lumColors,           \* first argument of validateLuminance
    lumConfig,           \* second argument of validateLuminance
    lumResult            \* the LuminanceValidation returned, or NotRun

vars == <<designSystem, userConfig, pc, error, config, colorResult, spacingResult,
          gapResult, typographyResult, borderRadiusResult, borderWidthResult,
          timeResult, ir, emptyResultOverrides, irShared, kept, mutated, calls,
          cssConfig, cssBlocks, css, cssBefore, now, lumColors, lumConfig, lumResult>>

\* what the caller and the module keep between calls, and what toCss works on
moduleVars == <<emptyResultOverrides>>
callerVars == <<kept, mutated, calls>>
cssVars == <<cssConfig, cssBlocks, css, cssBefore, now>>
lumVars == <<lumColors, lumConfig, lumResult>>

-----------------------------------------------------------------------------
(* Bounds and fixed-point numbers *)

Denom == 2
MaxRange == 3

Fix(n) == n * Denom
IsInteger(x) == x % Denom = 0

-----------------------------------------------------------------------------
(* Sequences and insertion-ordered objects *)

Range(s) == {s[i] : i \in DOMAIN s}

RECURSIVE Flatten(_)
Flatten(ss) == IF ss = <<>> THEN <<>> ELSE Head(ss) \o Flatten(Tail(ss))

MapSeq(F(_), s) == [i \in DOMAIN s |-> F(s[i])]

Has(obj, k) == \E i \in DOMAIN obj : obj[i].key = k
Get(obj, k) == obj[CHOOSE i \in DOMAIN obj : obj[i].key = k].value
Keys(obj) == [i \in DOMAIN obj |-> obj[i].key]

\* obj[k] = v : an existing key keeps its place, a new key is appended
Put(obj, k, v) ==
    IF Has(obj, k)
    THEN [i \in DOMAIN obj |-> IF obj[i].key = k THEN [key |-> k, value |-> v] ELSE obj[i]]
    ELSE Append(obj, [key |-> k, value |-> v])

\* Set.add over a sequence of names: first insertion order, no duplicates
RECURSIVE AddAll(_, _)
AddAll(acc, names) ==
    IF names = <<>> THEN acc
    ELSE AddAll(IF Head(names) \in Range(acc) THEN acc ELSE Append(acc, Head(names)),
                Tail(names))

S(s) == [s |-> s]
N(n) == [n |-> n]

-----------------------------------------------------------------------------
(* Generator configuration *)

defaultGeneratorConfig ==
    [prefixes |-> [color |-> "clr", spacing |-> "sp", gap |-> "gap", typography |-> "fs",
                   borderRadius |-> "bdr", borderWidth |-> "bdw", time |-> "t"],
     colorFormat |-> [base |-> "oklch", alpha |-> "oklch", alphaModifier |-> "a"]]

NoUserConfig == [none |-> TRUE]

\* a later spread overrides an earlier one, key by key
Spread(defaults, over) ==
    [k \in DOMAIN defaults |-> IF k \in DOMAIN over THEN over[k] ELSE defaults[k]]

mergeConfig(uc) ==
    IF uc = NoUserConfig THEN defaultGeneratorConfig
    ELSE [prefixes |-> Spread(defaultGeneratorConfig.prefixes,
                              IF "prefixes" \in DOMAIN uc THEN uc.prefixes ELSE <<>>),
          colorFormat |-> Spread(defaultGeneratorConfig.colorFormat,
                              IF "colorFormat" \in DOMAIN uc THEN uc.colorFormat ELSE <<>>)]

-----------------------------------------------------------------------------
(* Mode resolution *)

\* a faulty variant: with several flagged modes the last one is taken
DefaultIndex_lastFlagged(modes) ==
    IF \E i \in DOMAIN modes : modes[i].isDefault
    THEN CHOOSE i \in DOMAIN modes :
            modes[i].isDefault /\ \A j \in (i + 1)..Len(modes) : ~modes[j].isDefault
    ELSE 1

\* index of modes.find((m) => m.isDefault) || modes[0]
DefaultIndex(modes) ==
    IF \E i \in DOMAIN modes : modes[i].isDefault
    THEN CHOOSE i \in DOMAIN modes :
            modes[i].isDefault /\ \A j \in 1..(i - 1) : ~modes[j].isDefault
    ELSE 1

getDefaultMode(modes) == modes[DefaultIndex(modes)]

\* modes.filter((m) => m !== defaultMode): identity, so by position
OverrideModes(modes) ==
    LET d == DefaultIndex(modes)
    IN  [i \in 1..(Len(modes) - 1) |-> IF i < d THEN modes[i] ELSE modes[i + 1]]

ModeNames(modes) == [i \in DOMAIN modes |-> modes[i].name]

\* for (const mode of overrideModes) overrideTokens[mode.name] = Gen(mode)
RECURSIVE OverrideRecord(_, _, _)
OverrideRecord(Gen(_), modes, acc) ==
    IF modes = <<>> THEN acc
    ELSE OverrideRecord(Gen, Tail(modes), Put(acc, Head(modes).name, Gen(Head(modes))))

-----------------------------------------------------------------------------
(* Spacing generator *)

\* the indexes i of `for (let i = 1; i <= range; i++)`
LoopIndexes(range) ==
    LET n == IF range < 0 THEN 0 ELSE range \div Denom
    IN  [i \in 1..n |-> i]

NumStr(n, unit) == ToString(n) \o unit

\* a faulty variant: indexed tokens hold base * (i - 1)
generateSpacingTokensForMode_fromZero(mode, cfg) ==
    LET prefix == cfg.prefixes.spacing
        t == mode.tokens
        minToken == [family |-> "spacing", name |-> prefix \o "-min",
                     value |-> NumStr(t.min, t.unit), rawValue |-> t.min, unit |-> t.unit]
        Indexed(i) == [family |-> "spacing", name |-> prefix \o "-" \o ToString(i),
                       value |-> NumStr(t.base * (i - 1), t.unit),
                       rawValue |-> t.base * (i - 1), unit |-> t.unit]
    IN  <<minToken>> \o MapSeq(Indexed, LoopIndexes(t.range))

generateSpacingTokensForMode(mode, cfg) ==
    LET prefix == cfg.prefixes.spacing
        t == mode.tokens
        minToken == [family |-> "spacing", name |-> prefix \o "-min",
                     value |-> NumStr(t.min, t.unit), rawValue |-> t.min, unit |-> t.unit]
        Indexed(i) == [family |-> "spacing", name |-> prefix \o "-" \o ToString(i),
                       value |-> NumStr(t.base * i, t.unit), rawValue |-> t.base * i,
                       unit |-> t.unit]
    IN  <<minToken>> \o MapSeq(Indexed, LoopIndexes(t.range))

generateSpacingTokens(spacing, cfg) ==
    LET defaultMode == getDefaultMode(spacing.modes)
        overrideModes == OverrideModes(spacing.modes)
        Gen(m) == generateSpacingTokensForMode(m, cfg)
    IN  [defaultTokens |-> Gen(defaultMode),
         overrideTokens |-> OverrideRecord(Gen, overrideModes, <<>>),
         modeInfo |-> [default |-> defaultMode.name, overrides |-> ModeNames(overrideModes)]]

-----------------------------------------------------------------------------
(* Gap generator *)

META_PROPS == {"unit", "spacingMode"}

\* obj.k || fallback, for a string-valued optional property
StrOr(obj, k, fallback) ==
    IF Has(obj, k) /\ Get(obj, k) # S("") THEN Get(obj, k).s ELSE fallback

resolveGapValue(value, spacingSystem) ==
    IF value = S("min") THEN spacingSystem.min ELSE value.n * spacingSystem.base

\* a faulty variant: the reference is built with the gap prefix
getReference_ownPrefix(value, cfg) ==
    IF value = S("min") THEN cfg.prefixes.gap \o "-min"
    ELSE cfg.prefixes.gap \o "-" \o ToString(value.n)

getReference(value, cfg) ==
    IF value = S("min") THEN cfg.prefixes.spacing \o "-min"
    ELSE cfg.prefixes.spacing \o "-" \o ToString(value.n)

\* the entries of Object.entries(system) that are not metadata
ValueEntries(system, meta) ==
    SelectSeq(system, LAMBDA e : e.key \notin meta)

\* a faulty variant: the gap mode's own unit is ignored
generateGapTokensForMode_spacingUnit(gapMode, spacingMode, cfg) ==
    LET prefix == cfg.prefixes.gap
        gapSystem == gapMode.tokens
        spacingSystem == spacingMode.tokens
        unit == spacingSystem.unit
        Tok(e) == LET resolvedValue == resolveGapValue(e.value, spacingSystem)
                  IN  [family |-> "gap", name |-> prefix \o "-" \o e.key,
                       value |-> NumStr(resolvedValue, unit), rawValue |-> resolvedValue,
                       unit |-> unit, reference |-> getReference(e.value, cfg)]
    IN  MapSeq(Tok, ValueEntries(gapSystem, META_PROPS))

generateGapTokensForMode(gapMode, spacingMode, cfg) ==
    LET prefix == cfg.prefixes.gap
        gapSystem == gapMode.tokens
        spacingSystem == spacingMode.tokens
        unit == StrOr(gapSystem, "unit", spacingSystem.unit)
        Tok(e) == LET resolvedValue == resolveGapValue(e.value, spacingSystem)
                  IN  [family |-> "gap", name |-> prefix \o "-" \o e.key,
                       value |-> NumStr(resolvedValue, unit), rawValue |-> resolvedValue,
                       unit |-> unit, reference |-> getReference(e.value, cfg)]
    IN  MapSeq(Tok, ValueEntries(gapSystem, META_PROPS))

\* index of spacingModes.find((m) => m.name === name), 0 when there is none
FindByName(modes, name) ==
    IF \E i \in DOMAIN modes : modes[i].name = name
    THEN CHOOSE i \in DOMAIN modes :
            modes[i].name = name /\ \A j \in 1..(i - 1) : modes[j].name # name
    ELSE 0

\* a faulty variant: the same-name spacing mode is tried before the explicit one
findSpacingModeForGap_sameNameFirst(gapMode, spacingModes) ==
    LET explicit == StrOr(gapMode.tokens, "spacingMode", "")
        namedMode == IF explicit # "" THEN FindByName(spacingModes, explicit) ELSE 0
        sameNameMode == FindByName(spacingModes, gapMode.name)
    IN  IF sameNameMode # 0 THEN spacingModes[sameNameMode]
        ELSE IF namedMode # 0 THEN spacingModes[namedMode]
        ELSE getDefaultMode(spacingModes)

findSpacingModeForGap(gapMode, spacingModes) ==
    LET explicit == StrOr(gapMode.tokens, "spacingMode", "")
        namedMode == IF explicit # "" THEN FindByName(spacingModes, explicit) ELSE 0
        sameNameMode == FindByName(spacingModes, gapMode.name)
    IN  IF namedMode # 0 THEN spacingModes[namedMode]
        ELSE IF sameNameMode # 0 THEN spacingModes[sameNameMode]
        ELSE getDefaultMode(spacingModes)

generateGapTokens(gap, spacing, cfg) ==
    LET defaultGapMode == getDefaultMode(gap.modes)
        overrideGapModes == OverrideModes(gap.modes)
        Gen(m) == generateGapTokensForMode(m, findSpacingModeForGap(m, spacing.modes), cfg)
    IN  [defaultTokens |-> Gen(defaultGapMode),
         overrideTokens |-> OverrideRecord(Gen, overrideGapModes, <<>>),
         modeInfo |-> [default |-> defaultGapMode.name,
                       overrides |-> ModeNames(overrideGapModes)]]


-----------------------------------------------------------------------------
(* Border generators *)

RADIUS_META_PROPS == {"unit", "spacingMode"}

resolveValue(value, spacingSystem) ==
    IF value = S("min") THEN spacingSystem.min ELSE value.n * spacingSystem.base

getRadiusReference(value, cfg) ==
    IF value = S("min") THEN cfg.prefixes.spacing \o "-min"
    ELSE cfg.prefixes.spacing \o "-" \o ToString(value.n)

generateRadiusTokensForMode(borderRadiusMode, spacingMode, cfg) ==
    LET prefix == cfg.prefixes.borderRadius
        borderRadiusSystem == borderRadiusMode.tokens
        spacingSystem == spacingMode.tokens
        unit == StrOr(borderRadiusSystem, "unit", spacingSystem.unit)
        Tok(e) == LET resolvedValue == resolveValue(e.value, spacingSystem)
                  IN  [family |-> "borderRadius", name |-> prefix \o "-" \o e.key,
                       value |-> NumStr(resolvedValue, unit), rawValue |-> resolvedValue,
                       unit |-> unit, reference |-> getRadiusReference(e.value, cfg)]
    IN  MapSeq(Tok, ValueEntries(borderRadiusSystem, RADIUS_META_PROPS))

findSpacingModeForRadius(borderRadiusMode, spacingModes) ==
    LET explicit == StrOr(borderRadiusMode.tokens, "spacingMode", "")
        namedMode == IF explicit # "" THEN FindByName(spacingModes, explicit) ELSE 0
        sameNameMode == FindByName(spacingModes, borderRadiusMode.name)
    IN  IF namedMode # 0 THEN spacingModes[namedMode]
        ELSE IF sameNameMode # 0 THEN spacingModes[sameNameMode]
        ELSE getDefaultMode(spacingModes)

generateBorderRadiusTokens(borderRadius, spacing, cfg) ==
    LET defaultRadiusMode == getDefaultMode(borderRadius.modes)
        overrideRadiusModes == OverrideModes(borderRadius.modes)
        Gen(m) == generateRadiusTokensForMode(m, findSpacingModeForRadius(m, spacing.modes), cfg)
    IN  [defaultTokens |-> Gen(defaultRadiusMode),
         overrideTokens |-> OverrideRecord(Gen, overrideRadiusModes, <<>>),
         modeInfo |-> [default |-> defaultRadiusMode.name,
                       overrides |-> ModeNames(overrideRadiusModes)]]

generateWidthTokensForMode(mode, cfg) ==
    <<[family |-> "borderWidth", name |-> cfg.prefixes.borderWidth,
       value |-> NumStr(mode.tokens.value, mode.tokens.unit),
       rawValue |-> mode.tokens.value, unit |-> mode.tokens.unit]>>

generateBorderWidthTokens(borderWidth, cfg) ==
    LET defaultMode == getDefaultMode(borderWidth.modes)
        overrideModes == OverrideModes(borderWidth.modes)
        Gen(m) == generateWidthTokensForMode(m, cfg)
    IN  [defaultTokens |-> Gen(defaultMode),
         overrideTokens |-> OverrideRecord(Gen, overrideModes, <<>>),
         modeInfo |-> [default |-> defaultMode.name, overrides |-> ModeNames(overrideModes)]]

-----------------------------------------------------------------------------
(* Typography generator *)

\* value.toFixed(4).replace(/\.?0+$/, '') of an integer: its decimal digits
formatNumber(value) == ToString(value)

\* a faulty variant: the increment is applied n times instead of n - 1 times
generateTypographyTokensForMode_oneStepAhead(mode, cfg) ==
    LET prefix == cfg.prefixes.typography
        t == mode.tokens
        minToken == [family |-> "typography", name |-> prefix \o "-min",
                     value |-> formatNumber(t.min) \o t.unit, rawValue |-> t.min,
                     unit |-> t.unit]
        Value(i) == IF i = 1 THEN t.base ELSE t.base + t.increment * i
        Indexed(i) == [family |-> "typography", name |-> prefix \o "-" \o ToString(i),
                       value |-> formatNumber(Value(i)) \o t.unit, rawValue |-> Value(i),
                       unit |-> t.unit]
    IN  <<minToken>> \o MapSeq(Indexed, LoopIndexes(t.range))

generateTypographyTokensForMode(mode, cfg) ==
    LET prefix == cfg.prefixes.typography
        t == mode.tokens
        minToken == [family |-> "typography", name |-> prefix \o "-min",
                     value |-> formatNumber(t.min) \o t.unit, rawValue |-> t.min,
                     unit |-> t.unit]
        Value(i) == IF i = 1 THEN t.base ELSE t.base + t.increment * (i - 1)
        Indexed(i) == [family |-> "typography", name |-> prefix \o "-" \o ToString(i),
                       value |-> formatNumber(Value(i)) \o t.unit, rawValue |-> Value(i),
                       unit |-> t.unit]
    IN  <<minToken>> \o MapSeq(Indexed, LoopIndexes(t.range))

generateTypographyTokens(typography, cfg) ==
    LET defaultMode == getDefaultMode(typography.modes)
        overrideModes == OverrideModes(typography.modes)
        Gen(m) == generateTypographyTokensForMode(m, cfg)
    IN  [defaultTokens |-> Gen(defaultMode),
         overrideTokens |-> OverrideRecord(Gen, overrideModes, <<>>),
         modeInfo |-> [default |-> defaultMode.name, overrides |-> ModeNames(overrideModes)]]

-----------------------------------------------------------------------------
(* Color generator *)

Undefined == "undefined"

\* the color formatting capability (culori): an opaque string of its arguments
formatColor(color, format) == format \o "(" \o color \o ")"
formatColorWithAlpha(color, alpha, format) ==
    format \o "(" \o color \o " / " \o ToString(alpha) \o "/" \o ToString(Denom) \o ")"

\* a value of type `AlphaSchedule | undefined`: <<>> is undefined, <<sched>> is sched
NoSchedule == <<>>

\* a faulty variant: an entry holding undefined is not skipped
generateColorTokensForMode_keepingHoles(mode, alphaSchedule, cfg) ==
    LET prefix == cfg.prefixes.color
        alphaModifier == cfg.colorFormat.alphaModifier
        Base(e) == [family |-> "color", name |-> prefix \o "-" \o e.key,
                    value |-> formatColor(e.value, cfg.colorFormat.base),
                    metadata |-> [baseColor |-> e.key]]
        Alpha(e, a) == [family |-> "color",
                        name |-> prefix \o "-" \o e.key \o "-" \o alphaModifier \o "-" \o a.key,
                        value |-> formatColorWithAlpha(e.value, a.value, cfg.colorFormat.alpha),
                        rawValue |-> a.value,
                        metadata |-> [isAlphaVariant |-> TRUE, alphaLevel |-> a.key,
                                      baseColor |-> e.key]]
        ForColor(e) ==
            IF alphaSchedule = NoSchedule THEN <<Base(e)>>
            ELSE <<Base(e)>> \o [j \in DOMAIN alphaSchedule[1] |-> Alpha(e, alphaSchedule[1][j])]
    IN  Flatten(MapSeq(ForColor, mode.tokens))

\* a faulty variant: the first alpha level of the schedule is left out
generateColorTokensForMode_droppingLevel(mode, alphaSchedule, cfg) ==
    LET prefix == cfg.prefixes.color
        alphaModifier == cfg.colorFormat.alphaModifier
        Base(e) == [family |-> "color", name |-> prefix \o "-" \o e.key,
                    value |-> formatColor(e.value, cfg.colorFormat.base),
                    metadata |-> [baseColor |-> e.key]]
        Alpha(e, a) == [family |-> "color",
                        name |-> prefix \o "-" \o e.key \o "-" \o alphaModifier \o "-" \o a.key,
                        value |-> formatColorWithAlpha(e.value, a.value, cfg.colorFormat.alpha),
                        rawValue |-> a.value,
                        metadata |-> [isAlphaVariant |-> TRUE, alphaLevel |-> a.key,
                                      baseColor |-> e.key]]
        ForColor(e) ==
            IF e.value = Undefined THEN <<>>
            ELSE IF alphaSchedule = NoSchedule THEN <<Base(e)>>
            ELSE <<Base(e)>>
                    \o [j \in DOMAIN Tail(alphaSchedule[1]) |->
                            Alpha(e, Tail(alphaSchedule[1])[j])]
    IN  Flatten(MapSeq(ForColor, mode.tokens))

generateColorTokensForMode(mode, alphaSchedule, cfg) ==
    LET prefix == cfg.prefixes.color
        alphaModifier == cfg.colorFormat.alphaModifier
        Base(e) == [family |-> "color", name |-> prefix \o "-" \o e.key,
                    value |-> formatColor(e.value, cfg.colorFormat.base),
                    metadata |-> [baseColor |-> e.key]]
        Alpha(e, a) == [family |-> "color",
                        name |-> prefix \o "-" \o e.key \o "-" \o alphaModifier \o "-" \o a.key,
                        value |-> formatColorWithAlpha(e.value, a.value, cfg.colorFormat.alpha),
                        rawValue |-> a.value,
                        metadata |-> [isAlphaVariant |-> TRUE, alphaLevel |-> a.key,
                                      baseColor |-> e.key]]
        ForColor(e) ==
            IF e.value = Undefined THEN <<>>
            ELSE IF alphaSchedule = NoSchedule THEN <<Base(e)>>
            ELSE <<Base(e)>> \o [j \in DOMAIN alphaSchedule[1] |-> Alpha(e, alphaSchedule[1][j])]
    IN  Flatten(MapSeq(ForColor, mode.tokens))

\* a faulty variant: the mode's own schedule is ignored
getAlphaSchedule_systemOnly(mode, systemAlphaSchedule) == systemAlphaSchedule

\* mode.alphaSchedule || systemAlphaSchedule
getAlphaSchedule(mode, systemAlphaSchedule) ==
    IF "alphaSchedule" \in DOMAIN mode THEN <<mode.alphaSchedule>> ELSE systemAlphaSchedule

\* colors.alphaSchedule, as a value of type `AlphaSchedule | undefined`
FamilySchedule(colors) ==
    IF "alphaSchedule" \in DOMAIN colors THEN <<colors.alphaSchedule>> ELSE NoSchedule

\* for (const mode of overrideModes) if (Object.keys(mode.tokens).length > 0) ...
RECURSIVE ColorOverrideRecord(_, _, _, _)
ColorOverrideRecord(modes, defaultAlphaSchedule, cfg, acc) ==
    IF modes = <<>> THEN acc
    ELSE LET mode == Head(modes)
             next == IF Len(mode.tokens) > 0
                     THEN Put(acc, mode.name,
                              generateColorTokensForMode(
                                  mode, getAlphaSchedule(mode, defaultAlphaSchedule), cfg))
                     ELSE acc
         IN  ColorOverrideRecord(Tail(modes), defaultAlphaSchedule, cfg, next)

generateColorTokens(colors, cfg) ==
    LET defaultMode == getDefaultMode(colors.modes)
        overrideModes == OverrideModes(colors.modes)
        defaultAlphaSchedule == getAlphaSchedule(defaultMode, FamilySchedule(colors))
    IN  [defaultTokens |-> generateColorTokensForMode(defaultMode, defaultAlphaSchedule, cfg),
         overrideTokens |-> ColorOverrideRecord(overrideModes, defaultAlphaSchedule, cfg, <<>>),
         modeInfo |-> [default |-> defaultMode.name, overrides |-> ModeNames(overrideModes)]]

-----------------------------------------------------------------------------
(* Time generator *)

\* a faulty variant: the default mode's tokens carry the mode name too
generateTimeTokensForMode_alwaysInfixed(mode, isDefaultMode, cfg) ==
    LET basePrefix == cfg.prefixes.time
        t == mode.tokens
        prefix == basePrefix \o "-" \o mode.name
        minToken == [family |-> "time", name |-> prefix \o "-min",
                     value |-> NumStr(t.min, t.unit), rawValue |-> t.min, unit |-> t.unit,
                     metadata |-> [timeCategory |-> mode.name]]
        Indexed(i) == [family |-> "time", name |-> prefix \o "-" \o ToString(i),
                       value |-> NumStr(t.base * i, t.unit), rawValue |-> t.base * i,
                       unit |-> t.unit, metadata |-> [timeCategory |-> mode.name]]
    IN  <<minToken>> \o MapSeq(Indexed, LoopIndexes(t.range))

generateTimeTokensForMode(mode, isDefaultMode, cfg) ==
    LET basePrefix == cfg.prefixes.time
        t == mode.tokens
        prefix == IF isDefaultMode THEN basePrefix ELSE basePrefix \o "-" \o mode.name
        minToken == [family |-> "time", name |-> prefix \o "-min",
                     value |-> NumStr(t.min, t.unit), rawValue |-> t.min, unit |-> t.unit,
                     metadata |-> [timeCategory |-> mode.name]]
        Indexed(i) == [family |-> "time", name |-> prefix \o "-" \o ToString(i),
                       value |-> NumStr(t.base * i, t.unit), rawValue |-> t.base * i,
                       unit |-> t.unit, metadata |-> [timeCategory |-> mode.name]]
    IN  <<minToken>> \o MapSeq(Indexed, LoopIndexes(t.range))

generateTimeTokens(time, cfg) ==
    LET d == DefaultIndex(time.modes)
    IN  [defaultTokens |->
            Flatten([i \in DOMAIN time.modes |->
                        generateTimeTokensForMode(time.modes[i], i = d, cfg)]),
         overrideTokens |-> <<>>,
         modeInfo |-> [default |-> time.modes[d].name, overrides |-> <<>>]]


-----------------------------------------------------------------------------
(* Input validation.  A validator returns the message of the ValidationError *)
(* it throws, or NoError.  The inputs are typed: a `typeof x !== 'number'`   *)
(* test is never true of them and is left out of the conditions.             *)

NoError == ""

\* the first error thrown by checks run one after the other
RECURSIVE FirstError(_)
FirstError(errs) ==
    IF errs = <<>> THEN NoError
    ELSE IF Head(errs) # NoError THEN Head(errs) ELSE FirstError(Tail(errs))

Quoted(name) == "\"" \o name \o "\""
FixStr(x) == ToString(x) \o "/" \o ToString(Denom)

\* `!x.modes || !Array.isArray(x.modes)`, then `x.modes.length === 0`
ModesShapeError(family, path) ==
    IF "modes" \notin DOMAIN family THEN path \o ".modes must be an array"
    ELSE IF Len(family.modes) = 0 THEN path \o ".modes must have at least one mode"
    ELSE NoError

\* the `!mode.name` and `!mode.tokens` tests that open every forEach callback
NameTokensError(mode, index, label) ==
    IF mode.name = ""
    THEN label \o " mode at index " \o ToString(index - 1) \o " must have a name"
    ELSE IF "tokens" \notin DOMAIN mode
    THEN label \o " mode " \o Quoted(mode.name) \o " must have tokens"
    ELSE NoError

\* a faulty variant: only the lower bound of an alpha value is tested
validateAlphaSchedule_lowerBoundOnly(schedule, path) ==
    IF Len(schedule) = 0 THEN path \o " must have at least one alpha level"
    ELSE FirstError([i \in DOMAIN schedule |->
            IF schedule[i].value < Fix(0)
            THEN path \o "." \o schedule[i].key \o " must be between 0 and 1 (got "
                      \o FixStr(schedule[i].value) \o ")"
            ELSE NoError])

validateAlphaSchedule(schedule, path) ==
    IF Len(schedule) = 0 THEN path \o " must have at least one alpha level"
    ELSE FirstError([i \in DOMAIN schedule |->
            IF schedule[i].value < Fix(0) \/ schedule[i].value > Fix(1)
            THEN path \o "." \o schedule[i].key \o " must be between 0 and 1 (got "
                      \o FixStr(schedule[i].value) \o ")"
            ELSE NoError])

validateColorsPartial(colors) ==
    LET shape == ModesShapeError(colors, "colors")
    IN  IF shape # NoError THEN shape
        ELSE FirstError(
            [i \in DOMAIN colors.modes |-> NameTokensError(colors.modes[i], i, "Color")]
            \o <<IF "alphaSchedule" \in DOMAIN colors
                 THEN validateAlphaSchedule(colors.alphaSchedule, "colors.alphaSchedule")
                 ELSE NoError>>
            \o [i \in DOMAIN colors.modes |->
                 IF "alphaSchedule" \in DOMAIN colors.modes[i]
                 THEN validateAlphaSchedule(colors.modes[i].alphaSchedule,
                        "colors.modes[" \o Quoted(colors.modes[i].name) \o "].alphaSchedule")
                 ELSE NoError])

RangeInvalid(range) == range < Fix(1) \/ ~IsInteger(range)

SpacingModeError(mode, index) ==
    LET head == NameTokensError(mode, index, "Spacing")
        label == "Spacing mode " \o Quoted(mode.name)
    IN  IF head # NoError THEN head
        ELSE IF mode.tokens.unit = "" THEN label \o " must have a unit string"
        ELSE IF mode.tokens.base <= 0 THEN label \o " base must be a positive number"
        ELSE IF mode.tokens.min < 0 THEN label \o " min must be a non-negative number"
        ELSE IF RangeInvalid(mode.tokens.range) THEN label \o " range must be a positive integer"
        ELSE NoError

validateSpacingPartial(spacing) ==
    LET shape == ModesShapeError(spacing, "spacing")
    IN  IF shape # NoError THEN shape
        ELSE FirstError([i \in DOMAIN spacing.modes |-> SpacingModeError(spacing.modes[i], i)])

validateGapPartial(gap) ==
    LET shape == ModesShapeError(gap, "gap")
    IN  IF shape # NoError THEN shape
        ELSE FirstError([i \in DOMAIN gap.modes |-> NameTokensError(gap.modes[i], i, "Gap")])

TypographyModeError(mode, index) ==
    LET head == NameTokensError(mode, index, "Typography")
        label == "Typography mode " \o Quoted(mode.name)
    IN  IF head # NoError THEN head
        ELSE IF mode.tokens.unit = "" THEN label \o " must have a unit string"
        ELSE IF mode.tokens.base <= 0 THEN label \o " base must be a positive number"
        ELSE IF mode.tokens.min < 0 THEN label \o " min must be a non-negative number"
        ELSE IF RangeInvalid(mode.tokens.range) THEN label \o " range must be a positive integer"
        ELSE NoError

validateTypographyPartial(typography) ==
    LET shape == ModesShapeError(typography, "typography")
    IN  IF shape # NoError THEN shape
        ELSE FirstError([i \in DOMAIN typography.modes |->
                            TypographyModeError(typography.modes[i], i)])

BorderWidthModeError(mode, index) ==
    LET head == NameTokensError(mode, index, "Border width")
        label == "Border width mode " \o Quoted(mode.name)
    IN  IF head # NoError THEN head
        ELSE IF mode.tokens.unit = "" THEN label \o " must have a unit string"
        ELSE IF mode.tokens.value < 0 THEN label \o " value must be a non-negative number"
        ELSE NoError

validateBorderPartial(border) ==
    LET radius ==
            IF "radius" \notin DOMAIN border THEN NoError
            ELSE LET shape == ModesShapeError(border.radius, "border.radius")
                 IN  IF shape # NoError THEN shape
                     ELSE FirstError([i \in DOMAIN border.radius.modes |->
                            NameTokensError(border.radius.modes[i], i, "Border radius")])
        width ==
            IF "width" \notin DOMAIN border THEN NoError
            ELSE LET shape == ModesShapeError(border.width, "border.width")
                 IN  IF shape # NoError THEN shape
                     ELSE FirstError([i \in DOMAIN border.width.modes |->
                            BorderWidthModeError(border.width.modes[i], i)])
    IN  FirstError(<<radius, width>>)

validateTimeTokens(tokens, path) ==
    IF tokens.unit = "" THEN path \o " must have a unit string"
    ELSE IF tokens.base < 0 THEN path \o ".base must be a non-negative number"
    ELSE IF tokens.min < 0 THEN path \o ".min must be a non-negative number"
    ELSE IF RangeInvalid(tokens.range) THEN path \o ".range must be a positive integer"
    ELSE NoError

TimeModeError(mode, index) ==
    LET head == NameTokensError(mode, index, "Time")
    IN  IF head # NoError THEN head
        ELSE validateTimeTokens(mode.tokens, "time.modes[" \o Quoted(mode.name) \o "].tokens")

validateTimePartial(time) ==
    LET shape == ModesShapeError(time, "time")
    IN  IF shape # NoError THEN shape
        ELSE FirstError([i \in DOMAIN time.modes |-> TimeModeError(time.modes[i], i)])

HasFamily(ds, f) == f \in DOMAIN ds
HasRadius(ds) == HasFamily(ds, "border") /\ "radius" \in DOMAIN ds.border
HasWidth(ds) == HasFamily(ds, "border") /\ "width" \in DOMAIN ds.border

\* a faulty variant: the spacing family is validated before the color family
validatePartialDesignSystem_spacingFirst(ds) ==
    IF DOMAIN ds \cap {"colors", "spacing", "gap", "typography", "border", "time"} = {}
    THEN "At least one token family must be provided"
    ELSE IF HasFamily(ds, "gap") /\ ~HasFamily(ds, "spacing")
    THEN "Gap requires spacing (gap values reference spacing tokens)"
    ELSE IF HasRadius(ds) /\ ~HasFamily(ds, "spacing")
    THEN "Border radius requires spacing (radius values reference spacing tokens)"
    ELSE FirstError(<<
        IF HasFamily(ds, "spacing") THEN validateSpacingPartial(ds.spacing) ELSE NoError,
        IF HasFamily(ds, "colors") THEN validateColorsPartial(ds.colors) ELSE NoError,
        IF HasFamily(ds, "gap") THEN validateGapPartial(ds.gap) ELSE NoError,
        IF HasFamily(ds, "typography") THEN validateTypographyPartial(ds.typography) ELSE NoError,
        IF HasFamily(ds, "border") THEN validateBorderPartial(ds.border) ELSE NoError,
        IF HasFamily(ds, "time") THEN validateTimePartial(ds.time) ELSE NoError>>)

\* a faulty variant: border radius is not required to come with spacing
validatePartialDesignSystem_radiusUnchecked(ds) ==
    IF DOMAIN ds \cap {"colors", "spacing", "gap", "typography", "border", "time"} = {}
    THEN "At least one token family must be provided"
    ELSE IF HasFamily(ds, "gap") /\ ~HasFamily(ds, "spacing")
    THEN "Gap requires spacing (gap values reference spacing tokens)"
    ELSE FirstError(<<
        IF HasFamily(ds, "colors") THEN validateColorsPartial(ds.colors) ELSE NoError,
        IF HasFamily(ds, "spacing") THEN validateSpacingPartial(ds.spacing) ELSE NoError,
        IF HasFamily(ds, "gap") THEN validateGapPartial(ds.gap) ELSE NoError,
        IF HasFamily(ds, "typography") THEN validateTypographyPartial(ds.typography) ELSE NoError,
        IF HasFamily(ds, "border") THEN validateBorderPartial(ds.border) ELSE NoError,
        IF HasFamily(ds, "time") THEN validateTimePartial(ds.time) ELSE NoError>>)

\* a faulty variant: a configuration without any family is let through
validatePartialDesignSystem_emptyAccepted(ds) ==
    IF HasFamily(ds, "gap") /\ ~HasFamily(ds, "spacing")
    THEN "Gap requires spacing (gap values reference spacing tokens)"
    ELSE IF HasRadius(ds) /\ ~HasFamily(ds, "spacing")
    THEN "Border radius requires spacing (radius values reference spacing tokens)"
    ELSE FirstError(<<
        IF HasFamily(ds, "colors") THEN validateColorsPartial(ds.colors) ELSE NoError,
        IF HasFamily(ds, "spacing") THEN validateSpacingPartial(ds.spacing) ELSE NoError,
        IF HasFamily(ds, "gap") THEN validateGapPartial(ds.gap) ELSE NoError,
        IF HasFamily(ds, "typography") THEN validateTypographyPartial(ds.typography) ELSE NoError,
        IF HasFamily(ds, "border") THEN validateBorderPartial(ds.border) ELSE NoError,
        IF HasFamily(ds, "time") THEN validateTimePartial(ds.time) ELSE NoError>>)

validatePartialDesignSystem(ds) ==
    IF DOMAIN ds \cap {"colors", "spacing", "gap", "typography", "border", "time"} = {}
    THEN "At least one token family must be provided"
    ELSE IF HasFamily(ds, "gap") /\ ~HasFamily(ds, "spacing")
    THEN "Gap requires spacing (gap values reference spacing tokens)"
    ELSE IF HasRadius(ds) /\ ~HasFamily(ds, "spacing")
    THEN "Border radius requires spacing (radius values reference spacing tokens)"
    ELSE FirstError(<<
        IF HasFamily(ds, "colors") THEN validateColorsPartial(ds.colors) ELSE NoError,
        IF HasFamily(ds, "spacing") THEN validateSpacingPartial(ds.spacing) ELSE NoError,
        IF HasFamily(ds, "gap") THEN validateGapPartial(ds.gap) ELSE NoError,
        IF HasFamily(ds, "typography") THEN validateTypographyPartial(ds.typography) ELSE NoError,
        IF HasFamily(ds, "border") THEN validateBorderPartial(ds.border) ELSE NoError,
        IF HasFamily(ds, "time") THEN validateTimePartial(ds.time) ELSE NoError>>)

-----------------------------------------------------------------------------
(* Orchestrator *)

\* a faulty variant: the substitute of an absent family is not empty
emptyResult_withLeftover ==
    [defaultTokens |-> <<[family |-> "spacing", name |-> "sp-min", value |-> "0px",
                          rawValue |-> 0, unit |-> "px"]>>,
     overrideTokens |-> <<>>,
     modeInfo |-> [default |-> "", overrides |-> emptyResultOverrides]]

\* the module-level constant; its modeInfo.overrides array is the one object of it that
\* generate hands out
emptyResult ==
    [defaultTokens |-> <<>>, overrideTokens |-> <<>>,
     modeInfo |-> [default |-> "", overrides |-> emptyResultOverrides]]

RECURSIVE tokensToRecordInto(_, _)
tokensToRecordInto(record, tokens) ==
    IF tokens = <<>> THEN record
    ELSE tokensToRecordInto(Put(record, Head(tokens).name, Head(tokens)), Tail(tokens))

tokensToRecord(tokens) == tokensToRecordInto(<<>>, tokens)

\* result.overrideTokens[modeName] when it is truthy, else nothing to push
OverrideTokensOf(result, modeName) ==
    IF Has(result.overrideTokens, modeName) THEN Get(result.overrideTokens, modeName) ELSE <<>>

\* family results in the order of Object.values(results)
AllOverrideModes(results) ==
    AddAll(<<>>, Flatten([i \in DOMAIN results |-> results[i].modeInfo.overrides]))

RECURSIVE BuildOverrideTokens(_, _, _)
BuildOverrideTokens(modeNames, results, acc) ==
    IF modeNames = <<>> THEN acc
    ELSE LET modeName == Head(modeNames)
             modeTokens == Flatten([i \in DOMAIN results |->
                                       OverrideTokensOf(results[i], modeName)])
         IN  BuildOverrideTokens(Tail(modeNames), results,
                IF Len(modeTokens) > 0
                THEN Put(acc, modeName, tokensToRecord(modeTokens))
                ELSE acc)

\* a faulty variant: border width is left out of the size category
AssembleIR_widthNotSize(color, spacing, gap, typography, borderRadius, borderWidth, time) ==
    LET results == <<color, spacing, gap, typography, borderRadius, borderWidth, time>>
        allDefaultTokens == Flatten([i \in DOMAIN results |-> results[i].defaultTokens])
        sizeResults == <<spacing, gap, typography, borderRadius>>
        sizeOverrides == AllOverrideModes(sizeResults)
    IN  [tokens |-> tokensToRecord(allDefaultTokens),
         modes |-> [color |-> [default |-> color.modeInfo.default,
                               overrides |-> color.modeInfo.overrides],
                    size |-> [default |-> spacing.modeInfo.default,
                              overrides |-> sizeOverrides],
                    time |-> [default |-> time.modeInfo.default,
                              overrides |-> time.modeInfo.overrides]],
         overrideTokens |-> BuildOverrideTokens(AllOverrideModes(results), results, <<>>)]

\* a faulty variant: the size default is that of the first size family that has one
AssembleIR_sizeDefaultFromAny(color, spacing, gap, typography, borderRadius, borderWidth, time) ==
    LET results == <<color, spacing, gap, typography, borderRadius, borderWidth, time>>
        allDefaultTokens == Flatten([i \in DOMAIN results |-> results[i].defaultTokens])
        sizeResults == <<spacing, gap, typography, borderRadius, borderWidth>>
        sizeOverrides == AllOverrideModes(sizeResults)
        named == SelectSeq(sizeResults, LAMBDA r : r.modeInfo.default # "")
    IN  [tokens |-> tokensToRecord(allDefaultTokens),
         modes |-> [color |-> [default |-> color.modeInfo.default,
                               overrides |-> color.modeInfo.overrides],
                    size |-> [default |-> IF named = <<>> THEN ""
                                          ELSE Head(named).modeInfo.default,
                              overrides |-> sizeOverrides],
                    time |-> [default |-> time.modeInfo.default,
                              overrides |-> time.modeInfo.overrides]],
         overrideTokens |-> BuildOverrideTokens(AllOverrideModes(results), results, <<>>)]

\* the part of generate after the seven family results are computed
AssembleIR(color, spacing, gap, typography, borderRadius, borderWidth, time) ==
    LET results == <<color, spacing, gap, typography, borderRadius, borderWidth, time>>
        allDefaultTokens == Flatten([i \in DOMAIN results |-> results[i].defaultTokens])
        sizeResults == <<spacing, gap, typography, borderRadius, borderWidth>>
        sizeOverrides == AllOverrideModes(sizeResults)
    IN  [tokens |-> tokensToRecord(allDefaultTokens),
         modes |-> [color |-> [default |-> color.modeInfo.default,
                               overrides |-> color.modeInfo.overrides],
                    size |-> [default |-> spacing.modeInfo.default,
                              overrides |-> sizeOverrides],
                    time |-> [default |-> time.modeInfo.default,
                              overrides |-> time.modeInfo.overrides]],
         overrideTokens |-> BuildOverrideTokens(AllOverrideModes(results), results, <<>>)]

-----------------------------------------------------------------------------
(* CSS transformer.  A selector template is the sequence of its literal    *)
(* parts, the text "{mode}" being a part of its own.  A block keeps, next  *)
(* to the text pushed onto `blocks`, what the text was made from.          *)

Placeholder == "{mode}"

defaultSelectors ==
    [root |-> <<":root">>,
     colorMode |-> <<"[data-color-mode=\"", Placeholder, "\"]">>,
     sizeMode |-> <<"[data-size-mode=\"", Placeholder, "\"]">>,
     timeMode |-> <<"[data-time-mode=\"", Placeholder, "\"]">>]

mergeCssConfig(uc) ==
    [selectors |-> Spread(defaultSelectors,
                          IF "selectors" \in DOMAIN uc THEN uc.selectors ELSE <<>>)]

RECURSIVE Join(_, _)
Join(strs, sep) ==
    IF strs = <<>> THEN ""
    ELSE IF Len(strs) = 1 THEN Head(strs)
    ELSE Head(strs) \o sep \o Join(Tail(strs), sep)

\* String.prototype.replace with a string pattern: the first occurrence only
RECURSIVE ReplaceFirst(_, _)
ReplaceFirst(template, modeName) ==
    IF template = <<>> THEN ""
    ELSE IF Head(template) = Placeholder THEN modeName \o Join(Tail(template), "")
    ELSE Head(template) \o ReplaceFirst(Tail(template), modeName)

NoCategory == "null"

\* a faulty variant: the time category is not looked at
getModeCategory_timeUnchecked(modeName, anIR) ==
    IF modeName \in Range(anIR.modes.color.overrides) THEN "color"
    ELSE IF modeName \in Range(anIR.modes.size.overrides) THEN "size"
    ELSE NoCategory

getModeCategory(modeName, anIR) ==
    IF modeName \in Range(anIR.modes.color.overrides) THEN "color"
    ELSE IF modeName \in Range(anIR.modes.size.overrides) THEN "size"
    ELSE IF modeName \in Range(anIR.modes.time.overrides) THEN "time"
    ELSE NoCategory

getSelectorForMode(modeName, category, cfg) ==
    CASE category = "color" -> ReplaceFirst(cfg.selectors.colorMode, modeName)
      [] category = "size" -> ReplaceFirst(cfg.selectors.sizeMode, modeName)
      [] category = "time" -> ReplaceFirst(cfg.selectors.timeMode, modeName)

\* a faulty variant: the first token is left out
formatTokensAsCss_skippingFirst(tokens) ==
    [i \in 1..(Len(tokens) - 1) |->
        "  --" \o tokens[i + 1].key \o ": " \o tokens[i + 1].value.value \o ";"]

formatTokensAsCss(tokens) ==
    [i \in DOMAIN tokens |-> "  --" \o tokens[i].key \o ": " \o tokens[i].value.value \o ";"]

\* header.ts: the lines of the header, the timestamp among them when there is one
getHeaderLines(headerInfo) ==
    <<"Generated by " \o headerInfo.toolName \o " v" \o headerInfo.toolVersion>>
        \o (IF headerInfo.timestamp = <<>> THEN <<>>
            ELSE <<"Generated at: " \o ToString(headerInfo.timestamp[1])>>)
        \o headerInfo.customLines

\* header.ts: a block comment; `trailing` is the white space that ends the string
formatHeaderComment(lines, style) ==
    [text |-> "/**\n" \o Join([i \in DOMAIN lines |-> " * " \o lines[i]], "\n") \o "\n */",
     trailing |-> "\n"]

NoHeader == [text |-> "", trailing |-> ""]
HeaderOff == [disabled |-> TRUE]

\* a faulty variant: the clock is read whether includeTimestamp is set or not
generateHeader_alwaysStamped(fileHeaderConfig, clock) ==
    IF fileHeaderConfig = <<>> \/ fileHeaderConfig = <<HeaderOff>> THEN NoHeader
    ELSE LET c == fileHeaderConfig[1]
             headerInfo == [toolName |-> c.toolName, toolVersion |-> c.toolVersion,
                            timestamp |-> <<clock>>,
                            customLines |-> IF "customLines" \in DOMAIN c
                                            THEN c.customLines ELSE <<>>]
         IN  formatHeaderComment(getHeaderLines(headerInfo), "block")

\* fileHeaderConfig is <<>> for undefined, <<HeaderOff>> for false, <<config>> otherwise;
\* clock is the instant `new Date()` returns
generateHeader(fileHeaderConfig, clock) ==
    IF fileHeaderConfig = <<>> \/ fileHeaderConfig = <<HeaderOff>> THEN NoHeader
    ELSE LET c == fileHeaderConfig[1]
             headerInfo == [toolName |-> c.toolName, toolVersion |-> c.toolVersion,
                            timestamp |-> IF "includeTimestamp" \in DOMAIN c
                                              /\ c.includeTimestamp
                                          THEN <<clock>> ELSE <<>>,
                            customLines |-> IF "customLines" \in DOMAIN c
                                            THEN c.customLines ELSE <<>>]
         IN  formatHeaderComment(getHeaderLines(headerInfo), "block")

FileHeaderOf(uc) == IF "fileHeader" \in DOMAIN uc THEN <<uc.fileHeader>> ELSE <<>>

RuleText(selector, lines) == selector \o " {\n" \o Join(lines, "\n") \o "\n}"

\* the body of the loop over Object.entries(ir.overrideTokens)
OverrideBlocks(entry, anIR, cfg) ==
    LET category == getModeCategory(entry.key, anIR)
    IN  IF category = NoCategory THEN <<>>
        ELSE LET selector == getSelectorForMode(entry.key, category, cfg)
                 modeVars == formatTokensAsCss(entry.value)
             IN  IF Len(modeVars) > 0
                 THEN <<[kind |-> "override", mode |-> entry.key, selector |-> selector,
                         lines |-> modeVars, text |-> RuleText(selector, modeVars)]>>
                 ELSE <<>>

\* the `blocks` array of toCss when it returns
toCssBlocks(anIR, uc, clock) ==
    LET cfg == mergeCssConfig(uc)
        header == generateHeader(FileHeaderOf(uc), clock)
        rootVars == formatTokensAsCss(anIR.tokens)
        rootSelector == Join(cfg.selectors.root, "")
    IN  (IF header.text \o header.trailing # ""
         THEN <<[kind |-> "header", mode |-> "", selector |-> "", lines |-> <<>>,
                 text |-> header.text]>>
         ELSE <<>>)
        \o <<[kind |-> "root", mode |-> "", selector |-> rootSelector, lines |-> rootVars,
              text |-> RuleText(rootSelector, rootVars)]>>
        \o Flatten([i \in DOMAIN anIR.overrideTokens |->
                        OverrideBlocks(anIR.overrideTokens[i], anIR, cfg)])

toCss(anIR, uc, clock) ==
    LET blocks == toCssBlocks(anIR, uc, clock)
    IN  Join([i \in DOMAIN blocks |-> blocks[i].text], "\n\n")

-----------------------------------------------------------------------------
(* Luminance constraint.  A color is <<>> when undefined and <<[l |-> n]>>  *)
(* otherwise; luminances and deltas are integers, counts of 1/MaxLum.       *)

\* colors[key]?.l
LuminanceOf(colors, key) ==
    IF Has(colors, key) /\ Get(colors, key) # <<>> THEN <<Get(colors, key)[1].l>> ELSE <<>>

\* a faulty variant: an undefined color counts with luminance 0
luminancesOf_undefinedAsZero(keys, colors) ==
    [i \in DOMAIN keys |->
        IF LuminanceOf(colors, keys[i]) = <<>> THEN 0 ELSE LuminanceOf(colors, keys[i])[1]]

\* keys.map((key) => colors[key]?.l).filter((l) => l !== undefined)
luminancesOf(keys, colors) ==
    Flatten([i \in DOMAIN keys |-> LuminanceOf(colors, keys[i])])

RECURSIVE MathMax(_)
MathMax(ns) ==
    IF Len(ns) = 1 THEN Head(ns)
    ELSE IF Head(ns) >= MathMax(Tail(ns)) THEN Head(ns) ELSE MathMax(Tail(ns))

RECURSIVE MathMin(_)
MathMin(ns) ==
    IF Len(ns) = 1 THEN Head(ns)
    ELSE IF Head(ns) <= MathMin(Tail(ns)) THEN Head(ns) ELSE MathMin(Tail(ns))

\* a faulty variant: the headroom is the distance from the boundary, without its sign
RECURSIVE diagnose_unsigned(_, _, _, _, _, _)
diagnose_unsigned(colorDiagnostics, keys, colors, group, constraint, isMax) ==
    IF keys = <<>> THEN colorDiagnostics
    ELSE LET l == LuminanceOf(colors, Head(keys))
             d == IF l = <<>> THEN 0 ELSE constraint - l[1]
         IN  diagnose_unsigned(
                IF l = <<>> THEN colorDiagnostics
                ELSE Put(colorDiagnostics, Head(keys),
                         [group |-> group, luminance |-> l[1],
                          headroom |-> IF d < 0 THEN 0 - d ELSE d]),
                Tail(keys), colors, group, constraint, isMax)

\* one of the two loops that build colorDiagnostics: under a max constraint the
\* headroom is constraint - luminance, under a min constraint luminance - constraint
RECURSIVE diagnose(_, _, _, _, _, _)
diagnose(colorDiagnostics, keys, colors, group, constraint, isMax) ==
    IF keys = <<>> THEN colorDiagnostics
    ELSE LET l == LuminanceOf(colors, Head(keys))
         IN  diagnose(
                IF l = <<>> THEN colorDiagnostics
                ELSE Put(colorDiagnostics, Head(keys),
                         [group |-> group, luminance |-> l[1],
                          headroom |-> IF isMax THEN constraint - l[1]
                                       ELSE l[1] - constraint]),
                Tail(keys), colors, group, constraint, isMax)

\* a faulty variant: the groups' roles are those of negative polarity always
validateLuminance_negativeOnly(colors, cfg) ==
    LET bgLuminances == luminancesOf(cfg.backgroundColors, colors)
        fgLuminances == luminancesOf(cfg.foregroundColors, colors)
        negative == cfg.polarity = "negative"
    IN  IF Len(bgLuminances) = 0 \/ Len(fgLuminances) = 0
        THEN [deltaValid |-> FALSE, actualDelta |-> 0, requiredDelta |-> cfg.minDelta,
              backgroundConstraint |-> 0,
              backgroundConstraintType |-> IF negative THEN "max" ELSE "min",
              foregroundConstraint |-> 0,
              foregroundConstraintType |-> IF negative THEN "min" ELSE "max",
              colors |-> <<>>]
        ELSE LET maxBg == MathMax(bgLuminances)
                 minFg == MathMin(fgLuminances)
                 actualDelta == minFg - maxBg
                 backgroundConstraint == minFg - cfg.minDelta
                 foregroundConstraint == maxBg + cfg.minDelta
             IN  [deltaValid |-> actualDelta >= cfg.minDelta,
                  actualDelta |-> actualDelta,
                  requiredDelta |-> cfg.minDelta,
                  backgroundConstraint |-> backgroundConstraint,
                  backgroundConstraintType |-> IF negative THEN "max" ELSE "min",
                  foregroundConstraint |-> foregroundConstraint,
                  foregroundConstraintType |-> IF negative THEN "min" ELSE "max",
                  colors |->
                    diagnose(diagnose(<<>>, cfg.backgroundColors, colors, "background",
                                      backgroundConstraint, TRUE),
                             cfg.foregroundColors, colors, "foreground",
                             foregroundConstraint, FALSE)]

validateLuminance(colors, cfg) ==
    LET bgLuminances == luminancesOf(cfg.backgroundColors, colors)
        fgLuminances == luminancesOf(cfg.foregroundColors, colors)
        negative == cfg.polarity = "negative"
    IN  IF Len(bgLuminances) = 0 \/ Len(fgLuminances) = 0
        THEN [deltaValid |-> FALSE, actualDelta |-> 0, requiredDelta |-> cfg.minDelta,
              backgroundConstraint |-> 0,
              backgroundConstraintType |-> IF negative THEN "max" ELSE "min",
              foregroundConstraint |-> 0,
              foregroundConstraintType |-> IF negative THEN "min" ELSE "max",
              colors |-> <<>>]
        ELSE LET maxBg == MathMax(bgLuminances)
                 minBg == MathMin(bgLuminances)
                 maxFg == MathMax(fgLuminances)
                 minFg == MathMin(fgLuminances)
                 actualDelta == IF negative THEN minFg - maxBg ELSE minBg - maxFg
                 backgroundConstraint ==
                    IF negative THEN minFg - cfg.minDelta ELSE maxFg + cfg.minDelta
                 foregroundConstraint ==
                    IF negative THEN maxBg + cfg.minDelta ELSE minBg - cfg.minDelta
             IN  [deltaValid |-> actualDelta >= cfg.minDelta,
                  actualDelta |-> actualDelta,
                  requiredDelta |-> cfg.minDelta,
                  backgroundConstraint |-> backgroundConstraint,
                  backgroundConstraintType |-> IF negative THEN "max" ELSE "min",
                  foregroundConstraint |-> foregroundConstraint,
                  foregroundConstraintType |-> IF negative THEN "min" ELSE "max",
                  colors |->
                    diagnose(diagnose(<<>>, cfg.backgroundColors, colors, "background",
                                      backgroundConstraint, negative),
                             cfg.foregroundColors, colors, "foreground",
                             foregroundConstraint, ~negative)]

NoLuminanceConfig == [none |-> TRUE]

NotRun == [notRun |-> TRUE]
NoIR == [noIR |-> TRUE]
NoConfig == [noConfig |-> TRUE]
NoCss == <<>>
NoCssConfig == [none |-> TRUE]
MaxClock == 1
MaxCalls == 3

\* generate, line by line
ValidateFails ==
    /\ pc = "validate"
    /\ validatePartialDesignSystem(designSystem) # NoError
    /\ error' = validatePartialDesignSystem(designSystem)
    /\ pc' = "thrown"
    /\ UNCHANGED <<designSystem, userConfig, config, colorResult, spacingResult, gapResult,
                   typographyResult, borderRadiusResult, borderWidthResult, timeResult, ir>>
    /\ UNCHANGED <<moduleVars, irShared, callerVars, cssVars, lumVars>>

ValidatePasses ==
    /\ pc = "validate"
    /\ validatePartialDesignSystem(designSystem) = NoError
    /\ pc' = "mergeConfig"
    /\ UNCHANGED <<designSystem, userConfig, error, config, colorResult, spacingResult,
                   gapResult, typographyResult, borderRadiusResult, borderWidthResult,
                   timeResult, ir>>
    /\ UNCHANGED <<moduleVars, irShared, callerVars, cssVars, lumVars>>

MergeConfig ==
    /\ pc = "mergeConfig"
    /\ config' = mergeConfig(userConfig)
    /\ pc' = "colors"
    /\ UNCHANGED <<designSystem, userConfig, error, colorResult, spacingResult, gapResult,
                   typographyResult, borderRadiusResult, borderWidthResult, timeResult, ir>>
    /\ UNCHANGED <<moduleVars, irShared, callerVars, cssVars, lumVars>>

GenerateColors ==
    /\ pc = "colors"
    /\ colorResult' = IF HasFamily(designSystem, "colors")
                      THEN generateColorTokens(designSystem.colors, config)
                      ELSE emptyResult
    /\ pc' = "spacing"
    /\ UNCHANGED <<designSystem, userConfig, error, config, spacingResult, gapResult,
                   typographyResult, borderRadiusResult, borderWidthResult, timeResult, ir>>
    /\ UNCHANGED <<moduleVars, irShared, callerVars, cssVars, lumVars>>

GenerateSpacing ==
    /\ pc = "spacing"
    /\ spacingResult' = IF HasFamily(designSystem, "spacing")
                        THEN generateSpacingTokens(designSystem.spacing, config)
                        ELSE emptyResult
    /\ pc' = "gap"
    /\ UNCHANGED <<designSystem, userConfig, error, config, colorResult, gapResult,
                   typographyResult, borderRadiusResult, borderWidthResult, timeResult, ir>>
    /\ UNCHANGED <<moduleVars, irShared, callerVars, cssVars, lumVars>>

GenerateGap ==
    /\ pc = "gap"
    /\ gapResult' = IF HasFamily(designSystem, "gap") /\ HasFamily(designSystem, "spacing")
                    THEN generateGapTokens(designSystem.gap, designSystem.spacing, config)
                    ELSE emptyResult
    /\ pc' = "typography"
    /\ UNCHANGED <<designSystem, userConfig, error, config, colorResult, spacingResult,
                   typographyResult, borderRadiusResult, borderWidthResult, timeResult, ir>>
    /\ UNCHANGED <<moduleVars, irShared, callerVars, cssVars, lumVars>>

GenerateTypography ==
    /\ pc = "typography"
    /\ typographyResult' = IF HasFamily(designSystem, "typography")
                           THEN generateTypographyTokens(designSystem.typography, config)
                           ELSE emptyResult
    /\ pc' = "borderRadius"
    /\ UNCHANGED <<designSystem, userConfig, error, config, colorResult, spacingResult,
                   gapResult, borderRadiusResult, borderWidthResult, timeResult, ir>>
    /\ UNCHANGED <<moduleVars, irShared, callerVars, cssVars, lumVars>>

GenerateBorderRadius ==
    /\ pc = "borderRadius"
    /\ borderRadiusResult' =
            IF HasRadius(designSystem) /\ HasFamily(designSystem, "spacing")
            THEN generateBorderRadiusTokens(designSystem.border.radius,
                                            designSystem.spacing, config)
            ELSE emptyResult
    /\ pc' = "borderWidth"
    /\ UNCHANGED <<designSystem, userConfig, error, config, colorResult, spacingResult,
                   gapResult, typographyResult, borderWidthResult, timeResult, ir>>
    /\ UNCHANGED <<moduleVars, irShared, callerVars, cssVars, lumVars>>

GenerateBorderWidth ==
    /\ pc = "borderWidth"
    /\ borderWidthResult' = IF HasWidth(designSystem)
                            THEN generateBorderWidthTokens(designSystem.border.width, config)
                            ELSE emptyResult
    /\ pc' = "time"
    /\ UNCHANGED <<designSystem, userConfig, error, config, colorResult, spacingResult,
                   gapResult, typographyResult, borderRadiusResult, timeResult, ir>>
    /\ UNCHANGED <<moduleVars, irShared, callerVars, cssVars, lumVars>>

GenerateTime ==
    /\ pc = "time"
    /\ timeResult' = IF HasFamily(designSystem, "time")
                     THEN generateTimeTokens(designSystem.time, config)
                     ELSE emptyResult
    /\ pc' = "assemble"
    /\ UNCHANGED <<designSystem, userConfig, error, config, colorResult, spacingResult,
                   gapResult, typographyResult, borderRadiusResult, borderWidthResult, ir>>
    /\ UNCHANGED <<moduleVars, irShared, callerVars, cssVars, lumVars>>

ReturnIR ==
    /\ pc = "assemble"
    /\ ir' = AssembleIR(colorResult, spacingResult, gapResult, typographyResult,
                        borderRadiusResult, borderWidthResult, timeResult)
    /\ pc' = "returned"
    /\ UNCHANGED <<designSystem, userConfig, error, config, colorResult, spacingResult,
                   gapResult, typographyResult, borderRadiusResult, borderWidthResult,
                   timeResult>>
    /\ irShared' = (IF HasFamily(designSystem, "colors") THEN {} ELSE {"color"})
                        \cup (IF HasFamily(designSystem, "time") THEN {} ELSE {"time"})
    /\ UNCHANGED <<moduleVars, callerVars, cssVars, lumVars>>

\* toCss(ir, cssConfig), called on the IR the caller holds; time may have passed
ToCss ==
    /\ pc = "returned"
    /\ cssBefore = NoCss
    /\ \E clock \in now..MaxClock :
        /\ now' = clock
        /\ cssBlocks' = toCssBlocks(ir, cssConfig, clock)
        /\ css' = <<toCss(ir, cssConfig, clock)>>
    /\ cssBefore' = css
    /\ UNCHANGED <<designSystem, userConfig, pc, error, config, colorResult, spacingResult,
                   gapResult, typographyResult, borderRadiusResult, borderWidthResult,
                   timeResult, ir, moduleVars, irShared, callerVars, cssConfig, lumVars>>

\* validateLuminance(lumColors, lumConfig)
ValidateLuminance ==
    /\ pc = "idle"
    /\ lumResult = NotRun
    /\ lumResult' = validateLuminance(lumColors, lumConfig)
    /\ UNCHANGED <<designSystem, userConfig, pc, error, config, colorResult, spacingResult,
                   gapResult, typographyResult, borderRadiusResult, borderWidthResult,
                   timeResult, ir, moduleVars, irShared, callerVars, cssVars,
                   lumColors, lumConfig>>

Next ==
    \/ ValidateFails
    \/ ValidatePasses
    \/ MergeConfig
    \/ GenerateColors
    \/ GenerateSpacing
    \/ GenerateGap
    \/ GenerateTypography
    \/ GenerateBorderRadius
    \/ GenerateBorderWidth
    \/ GenerateTime
    \/ ReturnIR

\* the state in which generate is called with the given arguments
CalledThen(ds, uc, cc) ==
    /\ designSystem = ds
    /\ userConfig = uc
    /\ pc = "validate"
    /\ error = NoError
    /\ config = NoConfig
    /\ colorResult = NotRun
    /\ spacingResult = NotRun
    /\ gapResult = NotRun
    /\ typographyResult = NotRun
    /\ borderRadiusResult = NotRun
    /\ borderWidthResult = NotRun
    /\ timeResult = NotRun
    /\ ir = NoIR
    /\ emptyResultOverrides = <<>>
    /\ irShared = {}
    /\ kept = NoIR
    /\ mutated = FALSE
    /\ calls = 1
    /\ cssConfig = cc
    /\ cssBlocks = <<>>
    /\ css = NoCss
    /\ cssBefore = NoCss
    /\ now = 0
    /\ lumColors = <<>>
    /\ lumConfig = NoLuminanceConfig
    /\ lumResult = NotRun

Called(ds, uc) == CalledThen(ds, uc, NoCssConfig)

\* the state in which the caller holds an IR it has built itself
Holding(anIR, cc) ==
    /\ designSystem = <<>>
    /\ userConfig = NoUserConfig
    /\ pc = "returned"
    /\ error = NoError
    /\ config = NoConfig
    /\ colorResult = NotRun
    /\ spacingResult = NotRun
    /\ gapResult = NotRun
    /\ typographyResult = NotRun
    /\ borderRadiusResult = NotRun
    /\ borderWidthResult = NotRun
    /\ timeResult = NotRun
    /\ ir = anIR
    /\ emptyResultOverrides = <<>>
    /\ irShared = {}
    /\ kept = NoIR
    /\ mutated = FALSE
    /\ calls = 0
    /\ cssConfig = cc
    /\ cssBlocks = <<>>
    /\ css = NoCss
    /\ cssBefore = NoCss
    /\ now = 0
    /\ lumColors = <<>>
    /\ lumConfig = NoLuminanceConfig
    /\ lumResult = NotRun

-----------------------------------------------------------------------------
(* Inputs.  Mode names are unique within a family (the data model's rule);  *)
(* nothing else is assumed of a configuration.                              *)

MaxBase == 2
MaxIndex == 2

Entry(k, v) == [key |-> k, value |-> v]
Mode(name, isDefault, tokens) == [name |-> name, isDefault |-> isDefault, tokens |-> tokens]
Scale(unit, base, min, range) == [unit |-> unit, base |-> base, min |-> min, range |-> range]

UniqueNames(modes) == \A i, j \in DOMAIN modes : modes[i].name = modes[j].name => i = j

\* lists of one or two modes: the first from `firsts`, the second from `seconds`
ModeLists(firsts, seconds) ==
    {<<m>> : m \in firsts}
        \cup {l \in {<<m1, m2>> : m1 \in firsts, m2 \in seconds} : UniqueNames(l)}

UserConfigs ==
    {NoUserConfig,
     [prefixes |-> [spacing |-> "space", gap |-> "g", color |-> "c"],
      colorFormat |-> [alphaModifier |-> "tr"]]}

(* spacing *)
SpacingModes ==
    {Mode(n, d, Scale(u, b, b - 1, Fix(r))) :
        n \in {"default", "small"}, d \in BOOLEAN, u \in {"px"},
        b \in 1..MaxBase, r \in 1..MaxRange}

SpacingFamilies == {[modes |-> l] : l \in ModeLists(SpacingModes, SpacingModes)}

\* three spacing scales that differ in every field, to tell apart which one was chosen
SpDefault(d) == Mode("default", d, Scale("px", 2, 1, Fix(2)))
SpSmall(d) == Mode("small", d, Scale("rem", 3, 2, Fix(3)))
SpLarge(d) == Mode("large", d, Scale("pt", 5, 4, Fix(1)))

ReferenceSpacings ==
    {[modes |-> l] : l \in {<<SpDefault(TRUE)>>,
                            <<SpDefault(TRUE), SpSmall(FALSE)>>,
                            <<SpDefault(FALSE), SpSmall(TRUE)>>,
                            <<SpDefault(FALSE), SpSmall(FALSE)>>,
                            <<SpSmall(FALSE), SpLarge(FALSE)>>,
                            <<SpLarge(FALSE), SpSmall(FALSE), SpDefault(TRUE)>>}}

(* gap and border radius: the same open-ended token maps *)
MetaEntries ==
    {sm \o un : sm \in {<<>>} \cup {<<Entry("spacingMode", S(x))>> : x \in {"small", "large", "ghost"}},
                un \in {<<>>, <<Entry("unit", S("em"))>>}}

ValueEntryLists ==
    {<<>>, <<Entry("min", S("min"))>>}
        \cup {<<Entry("s", N(k))>> : k \in 0..MaxIndex}
        \cup {<<Entry("min", S("min")), Entry("s", N(1)), Entry("xl", N(MaxIndex))>>}

ReferenceTokenMaps ==
    {m \o v : m \in MetaEntries, v \in ValueEntryLists}
        \cup {<<Entry("l", N(1)), Entry("unit", S("")), Entry("spacingMode", S(""))>>}

ReferenceModes ==
    {Mode(n, d, t) : n \in {"default", "small", "wide"}, d \in BOOLEAN, t \in ReferenceTokenMaps}

ReferenceFirstModes ==
    {Mode("default", FALSE, <<Entry("s", N(1))>>),
     Mode("wide", TRUE, <<Entry("spacingMode", S("small")), Entry("min", S("min"))>>)}

ReferenceFamilies ==
    {[modes |-> l] : l \in ModeLists(ReferenceModes, {})
                            \cup ModeLists(ReferenceFirstModes, ReferenceModes)}

(* typography *)
TypographyModes ==
    {Mode(n, d, [unit |-> "rem", base |-> b, min |-> 1, increment |-> inc, range |-> Fix(r)]) :
        n \in {"default", "small"}, d \in BOOLEAN, b \in 1..MaxBase, inc \in {-1, 0, 2},
        r \in 1..MaxRange}

TypographyFamilies ==
    {[modes |-> l] : l \in ModeLists(TypographyModes, {m \in TypographyModes : m.tokens.base = 1})}

(* border width and time, one valid family each *)
WidthFamily ==
    [modes |-> <<Mode("default", TRUE, [unit |-> "px", value |-> 1]),
                 Mode("thick", FALSE, [unit |-> "px", value |-> 3])>>]

TimeFamily ==
    [modes |-> <<Mode("default", TRUE, Scale("ms", 100, 50, Fix(2))),
                 Mode("anim", FALSE, Scale("ms", 1000, 500, Fix(1)))>>]

SizeInputs ==
    {[spacing |-> sp] : sp \in SpacingFamilies}
        \cup {[spacing |-> sp, gap |-> g] : sp \in ReferenceSpacings, g \in ReferenceFamilies}
        \cup {[spacing |-> sp, border |-> [radius |-> r]] :
                sp \in ReferenceSpacings, r \in ReferenceFamilies}
        \cup {[typography |-> t] : t \in TypographyFamilies}
        \cup {[spacing |-> [modes |-> <<SpDefault(FALSE)>>], border |-> [width |-> WidthFamily],
               time |-> TimeFamily],
              [gap |-> [modes |-> <<Mode("default", TRUE, <<Entry("s", N(1))>>)>>]]}

InitSize == \E ds \in SizeInputs, uc \in UserConfigs : Called(ds, uc)
SpecSize == InitSize /\ [][Next]_vars

-----------------------------------------------------------------------------
(* Claims about the size families *)

\* the token list a family result holds for the mode at position i of `modes`
EmittedFor(result, modes, i) ==
    IF i = DefaultIndex(modes) THEN result.defaultTokens
    ELSE IF Has(result.overrideTokens, modes[i].name)
         THEN Get(result.overrideTokens, modes[i].name)
         ELSE <<>>

HasToken(toks, name) == \E j \in DOMAIN toks : toks[j].name = name
TokenNamed(toks, name) == toks[CHOOSE j \in DOMAIN toks : toks[j].name = name]

Returned == pc = "returned"

\* the spacing modes a gap or border-radius mode may be resolved against, step by step
ExplicitSpacingMode(mode) ==
    IF Has(mode.tokens, "spacingMode") THEN Get(mode.tokens, "spacingMode").s ELSE ""

ChosenByExplicit(mode, spacingModes) ==
    {sm \in Range(spacingModes) :
        ExplicitSpacingMode(mode) # "" /\ sm.name = ExplicitSpacingMode(mode)}

ChosenBySameName(mode, spacingModes) ==
    {sm \in Range(spacingModes) : sm.name = mode.name}

ChosenSpacingModes(mode, spacingModes) ==
    IF ChosenByExplicit(mode, spacingModes) # {} THEN ChosenByExplicit(mode, spacingModes)
    ELSE IF ChosenBySameName(mode, spacingModes) # {} THEN ChosenBySameName(mode, spacingModes)
    ELSE {spacingModes[DefaultIndex(spacingModes)]}

ReferenceTokensOk(toks, mode, sm, prefix) ==
    LET keys == {mode.tokens[k].key : k \in DOMAIN mode.tokens} \ {"unit", "spacingMode"}
        ownUnit == IF Has(mode.tokens, "unit") THEN Get(mode.tokens, "unit").s ELSE ""
    IN  /\ Len(toks) = Cardinality(keys)
        /\ \A key \in keys :
            /\ Cardinality({j \in DOMAIN toks : toks[j].name = prefix \o "-" \o key}) = 1
            /\ LET tok == TokenNamed(toks, prefix \o "-" \o key)
                   held == Get(mode.tokens, key)
               IN  /\ tok.rawValue = IF held = S("min") THEN sm.tokens.min
                                     ELSE held.n * sm.tokens.base
                   /\ tok.unit = IF ownUnit # "" THEN ownUnit ELSE sm.tokens.unit
                   /\ tok.value = ToString(tok.rawValue) \o tok.unit

\* C5: a gap or border-radius mode emits exactly one token per key of its token map
\* other than unit and spacingMode, named {prefix}-{key}; "min" takes the chosen spacing
\* mode's min, an integer n takes n * base of the chosen spacing mode, and the unit is
\* the mode's own unit when set, else the chosen spacing mode's unit.
C5_ReferenceTokens ==
    /\ (gapResult # NotRun /\ HasFamily(designSystem, "gap")) =>
        \A i \in DOMAIN designSystem.gap.modes :
            \A sm \in ChosenSpacingModes(designSystem.gap.modes[i], designSystem.spacing.modes) :
                ReferenceTokensOk(EmittedFor(gapResult, designSystem.gap.modes, i),
                                  designSystem.gap.modes[i], sm, config.prefixes.gap)
    /\ (borderRadiusResult # NotRun /\ HasRadius(designSystem)) =>
        \A i \in DOMAIN designSystem.border.radius.modes :
            \A sm \in ChosenSpacingModes(designSystem.border.radius.modes[i],
                                         designSystem.spacing.modes) :
                ReferenceTokensOk(
                    EmittedFor(borderRadiusResult, designSystem.border.radius.modes, i),
                    designSystem.border.radius.modes[i], sm, config.prefixes.borderRadius)

\* a gap mode with a unit of its own, a spacingMode, a "min" and two integers has
\* emitted its three tokens
C5_Witness ==
    /\ Returned
    /\ HasFamily(designSystem, "gap")
    /\ \E i \in DOMAIN designSystem.gap.modes :
        LET mode == designSystem.gap.modes[i]
            toks == EmittedFor(gapResult, designSystem.gap.modes, i)
        IN  /\ Has(mode.tokens, "unit") /\ Has(mode.tokens, "spacingMode")
            /\ Has(mode.tokens, "min") /\ Has(mode.tokens, "xl")
            /\ Len(mode.tokens) = 5
            /\ Len(toks) = 3
            /\ \A j \in DOMAIN toks : toks[j].unit = "em"

\* C6: a spacing mode with positive base and positive integer range emits exactly
\* range+1 tokens: {prefix}-min holding min, and {prefix}-{n} holding base*n for each
\* n in 1..range, all in the mode's unit.
C6_SpacingScale ==
    (spacingResult # NotRun /\ HasFamily(designSystem, "spacing")) =>
        \A i \in DOMAIN designSystem.spacing.modes :
            LET t == designSystem.spacing.modes[i].tokens
                toks == EmittedFor(spacingResult, designSystem.spacing.modes, i)
                prefix == config.prefixes.spacing
                range == t.range \div Denom
            IN  (t.base > 0 /\ t.range >= Fix(1) /\ IsInteger(t.range)) =>
                    /\ Len(toks) = range + 1
                    /\ HasToken(toks, prefix \o "-min")
                    /\ TokenNamed(toks, prefix \o "-min").rawValue = t.min
                    /\ TokenNamed(toks, prefix \o "-min").value = ToString(t.min) \o t.unit
                    /\ \A n \in 1..range :
                        /\ HasToken(toks, prefix \o "-" \o ToString(n))
                        /\ TokenNamed(toks, prefix \o "-" \o ToString(n)).rawValue = t.base * n
                    /\ \A j \in DOMAIN toks : toks[j].unit = t.unit

\* an override spacing mode of the largest range has emitted all its tokens
C6_Witness ==
    /\ Returned
    /\ HasFamily(designSystem, "spacing")
    /\ Len(designSystem.spacing.modes) = 2
    /\ \E i \in DOMAIN designSystem.spacing.modes :
        /\ i # DefaultIndex(designSystem.spacing.modes)
        /\ designSystem.spacing.modes[i].tokens.range = Fix(MaxRange)
        /\ designSystem.spacing.modes[i].tokens.base = MaxBase
        /\ Len(EmittedFor(spacingResult, designSystem.spacing.modes, i)) = MaxRange + 1

\* C7: a typography mode emits {prefix}-min holding min and, for each n in 1..range,
\* {prefix}-{n} holding base when n = 1 and base + increment*(n-1) when n > 1; range+1
\* tokens in total.
C7_TypographyScale ==
    (typographyResult # NotRun /\ HasFamily(designSystem, "typography")) =>
        \A i \in DOMAIN designSystem.typography.modes :
            LET t == designSystem.typography.modes[i].tokens
                toks == EmittedFor(typographyResult, designSystem.typography.modes, i)
                prefix == config.prefixes.typography
                range == t.range \div Denom
            IN  /\ Len(toks) = range + 1
                /\ HasToken(toks, prefix \o "-min")
                /\ TokenNamed(toks, prefix \o "-min").rawValue = t.min
                /\ \A n \in 1..range :
                    /\ HasToken(toks, prefix \o "-" \o ToString(n))
                    /\ TokenNamed(toks, prefix \o "-" \o ToString(n)).rawValue =
                            IF n = 1 THEN t.base ELSE t.base + t.increment * (n - 1)

\* a typography mode with a non-zero increment has emitted a token beyond the first
C7_Witness ==
    /\ Returned
    /\ HasFamily(designSystem, "typography")
    /\ \E i \in DOMAIN designSystem.typography.modes :
        LET t == designSystem.typography.modes[i].tokens
            toks == EmittedFor(typographyResult, designSystem.typography.modes, i)
        IN  /\ t.increment = 2 /\ t.range = Fix(MaxRange) /\ t.base = MaxBase
            /\ HasToken(toks, "fs-" \o ToString(MaxRange))
            /\ TokenNamed(toks, "fs-" \o ToString(MaxRange)).rawValue
                    = MaxBase + 2 * (MaxRange - 1)

-----------------------------------------------------------------------------
(* Color configurations *)

ColorMode(name, isDefault, tokens, schedule) ==
    IF schedule = NoSchedule THEN Mode(name, isDefault, tokens)
    ELSE [name |-> name, isDefault |-> isDefault, tokens |-> tokens,
          alphaSchedule |-> schedule[1]]

ColorFamily(modes, schedule) ==
    IF schedule = NoSchedule THEN [modes |-> modes]
    ELSE [modes |-> modes, alphaSchedule |-> schedule[1]]

\* three schedules with different level names, fractions and lengths
ScheduleFamily == <<Entry("f", Fix(1))>>
ScheduleA == <<Entry("lo", 1), Entry("hi", Fix(1))>>
ScheduleB == <<Entry("min", Fix(0)), Entry("mid", 1), Entry("max", Fix(1))>>
ScheduleOutOfRange == <<Entry("lo", 1), Entry("over", Fix(1) + 1)>>

\* token maps over the colors bg and ink: each absent, defined, or present but undefined
ColorTokenMaps ==
    {b \o i : b \in {<<>>, <<Entry("bg", "c1")>>, <<Entry("bg", Undefined)>>},
              i \in {<<>>, <<Entry("ink", "c2")>>, <<Entry("ink", Undefined)>>}}

ColorModesNamed(name) ==
    {ColorMode(name, d, t, s) :
        d \in BOOLEAN, t \in ColorTokenMaps, s \in {NoSchedule, <<ScheduleA>>, <<ScheduleB>>}}

ColorFamilies ==
    {ColorFamily(l, s) :
        l \in ModeLists(ColorModesNamed("light"), ColorModesNamed("dark")),
        s \in {NoSchedule, <<ScheduleFamily>>}}

ColorInputs ==
    {[colors |-> c] : c \in ColorFamilies}
        \cup {[colors |-> ColorFamily(<<Mode("light", TRUE, <<Entry("bg", "c1")>>)>>,
                                      <<ScheduleOutOfRange>>)]}

InitColor == \E ds \in ColorInputs, uc \in UserConfigs : Called(ds, uc)
SpecColor == InitColor /\ [][Next]_vars

-----------------------------------------------------------------------------
(* Claims about the color family *)

DefinedColors(mode) ==
    {mode.tokens[k].key : k \in {j \in DOMAIN mode.tokens : mode.tokens[j].value # Undefined}}

IsAlphaToken(tok) == "isAlphaVariant" \in DOMAIN tok.metadata

BaseColorsOf(toks) == {toks[j].metadata.baseColor : j \in {k \in DOMAIN toks : ~IsAlphaToken(toks[k])}}

\* (color, level, fraction) of every alpha-variant token of a list
AlphaTriplesOf(toks) ==
    {<<toks[j].metadata.baseColor, toks[j].metadata.alphaLevel, toks[j].rawValue>> :
        j \in {k \in DOMAIN toks : IsAlphaToken(toks[k])}}

\* (color, level, fraction) for every defined color of a mode and every level of a schedule
AlphaTriplesFor(mode, schedule) ==
    IF schedule = NoSchedule THEN {}
    ELSE {<<c, schedule[1][j].key, schedule[1][j].value>> :
            c \in DefinedColors(mode), j \in DOMAIN schedule[1]}

OwnSchedule(mode) ==
    IF "alphaSchedule" \in DOMAIN mode THEN <<mode.alphaSchedule>> ELSE NoSchedule

\* the mode's own schedule, else the family-level schedule
OwnElseFamilySchedule(colors, mode) ==
    IF OwnSchedule(mode) # NoSchedule THEN OwnSchedule(mode) ELSE FamilySchedule(colors)

\* the mode's own schedule, else the default mode's own schedule, else the family-level one
OwnElseDefaultElseFamilySchedule(colors, mode) ==
    IF OwnSchedule(mode) # NoSchedule THEN OwnSchedule(mode)
    ELSE IF OwnSchedule(colors.modes[DefaultIndex(colors.modes)]) # NoSchedule
         THEN OwnSchedule(colors.modes[DefaultIndex(colors.modes)])
         ELSE FamilySchedule(colors)

ColorsGenerated == colorResult # NotRun /\ HasFamily(designSystem, "colors")

\* C8: a color mode with k defined colors under a schedule of m levels emits exactly
\* k*(1+m) tokens: one base token {prefix}-{name} per color and one alpha token
\* {prefix}-{name}-{alphaModifier}-{level} per color and level, whose rawValue is the
\* level's fraction.
C8_ColorTokenCount ==
    ColorsGenerated =>
        \A i \in DOMAIN designSystem.colors.modes :
            LET mode == designSystem.colors.modes[i]
                toks == EmittedFor(colorResult, designSystem.colors.modes, i)
                schedule == OwnElseDefaultElseFamilySchedule(designSystem.colors, mode)
                prefix == config.prefixes.color
                modifier == config.colorFormat.alphaModifier
            IN  schedule # NoSchedule =>
                    /\ Len(toks) = Cardinality(DefinedColors(mode)) * (1 + Len(schedule[1]))
                    /\ \A c \in DefinedColors(mode) :
                        /\ \E j \in DOMAIN toks :
                            toks[j].name = prefix \o "-" \o c /\ ~IsAlphaToken(toks[j])
                        /\ \A l \in DOMAIN schedule[1] :
                            \E j \in DOMAIN toks :
                                /\ toks[j].name = prefix \o "-" \o c \o "-" \o modifier
                                                    \o "-" \o schedule[1][l].key
                                /\ toks[j].rawValue = schedule[1][l].value

\* a mode with two defined colors under a three-level schedule has emitted 8 tokens
C8_Witness ==
    /\ Returned
    /\ ColorsGenerated
    /\ \E i \in DOMAIN designSystem.colors.modes :
        /\ Cardinality(DefinedColors(designSystem.colors.modes[i])) = 2
        /\ OwnSchedule(designSystem.colors.modes[i]) = <<ScheduleB>>
        /\ Len(EmittedFor(colorResult, designSystem.colors.modes, i)) = 8

\* C9: an override color mode emits base and alpha tokens for exactly the colors its own
\* token map holds with a defined value; a color only the default mode defines is not
\* emitted for it, and an entry holding undefined yields no token while generation
\* still completes.
C9_OverrideOnlyOwnColors ==
    ColorsGenerated =>
        \A i \in DOMAIN designSystem.colors.modes :
            i # DefaultIndex(designSystem.colors.modes) =>
                LET mode == designSystem.colors.modes[i]
                    toks == EmittedFor(colorResult, designSystem.colors.modes, i)
                IN  /\ {toks[j].metadata.baseColor : j \in DOMAIN toks} = DefinedColors(mode)
                    /\ BaseColorsOf(toks) = DefinedColors(mode)

\* an override mode holding one defined color and one undefined entry, next to a default
\* mode that defines both colors, has emitted tokens for its one defined color only
C9_Witness ==
    /\ Returned
    /\ ColorsGenerated
    /\ Len(designSystem.colors.modes) = 2
    /\ \E i \in DOMAIN designSystem.colors.modes :
        LET mode == designSystem.colors.modes[i]
            default == designSystem.colors.modes[DefaultIndex(designSystem.colors.modes)]
            toks == EmittedFor(colorResult, designSystem.colors.modes, i)
        IN  /\ i # DefaultIndex(designSystem.colors.modes)
            /\ DefinedColors(default) = {"bg", "ink"}
            /\ DefinedColors(mode) = {"bg"}
            /\ Has(mode.tokens, "ink")
            /\ toks # <<>>
            /\ \A j \in DOMAIN toks : toks[j].metadata.baseColor = "bg"

\* what a color mode must emit under a given schedule: a base token for every defined
\* color and an alpha variant for every defined color and level, nothing else
EmitsUnder(colors, i, schedule) ==
    LET toks == EmittedFor(colorResult, colors.modes, i)
    IN  /\ BaseColorsOf(toks) = DefinedColors(colors.modes[i])
        /\ AlphaTriplesOf(toks) = AlphaTriplesFor(colors.modes[i], schedule)

\* C10 (as stated): every color mode, default or override, is expanded under its own
\* schedule when it has one, otherwise under the family-level schedule; with neither,
\* base tokens only.
C10_OwnElseFamily ==
    ColorsGenerated =>
        \A i \in DOMAIN designSystem.colors.modes :
            EmitsUnder(designSystem.colors, i,
                       OwnElseFamilySchedule(designSystem.colors, designSystem.colors.modes[i]))

\* C10 (amended): every color mode is expanded under its own schedule when it has one;
\* otherwise under the default mode's own schedule when that mode has one; otherwise
\* under the family-level schedule; with none of these, base tokens only.
C10_OwnElseDefaultElseFamily ==
    ColorsGenerated =>
        \A i \in DOMAIN designSystem.colors.modes :
            EmitsUnder(designSystem.colors, i,
                       OwnElseDefaultElseFamilySchedule(designSystem.colors,
                                                        designSystem.colors.modes[i]))

\* an override mode without a schedule, in a family with a family-level schedule whose
\* default mode has a schedule of its own, has been expanded under the default mode's
C10_Witness ==
    /\ Returned
    /\ ColorsGenerated
    /\ FamilySchedule(designSystem.colors) = <<ScheduleFamily>>
    /\ \E i \in DOMAIN designSystem.colors.modes :
        LET mode == designSystem.colors.modes[i]
            default == designSystem.colors.modes[DefaultIndex(designSystem.colors.modes)]
        IN  /\ i # DefaultIndex(designSystem.colors.modes)
            /\ OwnSchedule(mode) = NoSchedule
            /\ OwnSchedule(default) = <<ScheduleA>>
            /\ DefinedColors(mode) # {}
            /\ AlphaTriplesOf(EmittedFor(colorResult, designSystem.colors.modes, i))
                    = AlphaTriplesFor(mode, <<ScheduleA>>)

-----------------------------------------------------------------------------
(* Configurations of every family, well-formed and not, in every combination *)

Absent == <<>>

ColorVariants ==
    {ColorFamily(<<ColorMode("light", TRUE, <<Entry("bg", "c1")>>, NoSchedule),
                   ColorMode("dark", FALSE, <<Entry("bg", "c2")>>, <<ScheduleA>>)>>,
                 <<ScheduleFamily>>),
     ColorFamily(<<Mode("light", TRUE, <<Entry("bg", "c1")>>)>>, NoSchedule),
     ColorFamily(<<Mode("light", TRUE, <<Entry("bg", "c1")>>)>>, <<ScheduleOutOfRange>>),
     ColorFamily(<<ColorMode("light", TRUE, <<Entry("bg", "c1")>>,
                             <<(<<Entry("under", 0 - 1)>>)>>)>>, <<ScheduleFamily>>),
     ColorFamily(<<Mode("light", TRUE, <<Entry("bg", "c1")>>)>>, <<(<<>>)>>),
     ColorFamily(<<>>, NoSchedule),
     ColorFamily(<<Mode("", TRUE, <<Entry("bg", "c1")>>)>>, NoSchedule),
     [modes |-> <<[name |-> "light", isDefault |-> TRUE]>>],
     [alphaSchedule |-> ScheduleFamily]}

SpacingVariants ==
    {[modes |-> <<Mode("default", TRUE, Scale("px", 4, 2, Fix(r)))>>] :
        r \in (0 - 1)..MaxRange}
    \cup {[modes |-> <<Mode("default", TRUE, Scale("px", 4, 2, Fix(r) + 1))>>] : r \in 0..1}
    \cup {[modes |-> <<Mode("default", TRUE, Scale("px", 4, 2, Fix(2))),
                       Mode("small", FALSE, Scale("rem", 1, 0, Fix(r)))>>] : r \in 0..1}
    \cup {[modes |-> <<Mode("default", TRUE, Scale("px", 0, 2, Fix(2)))>>],
          [modes |-> <<Mode("default", TRUE, Scale("", 4, 2, Fix(2)))>>],
          [modes |-> <<Mode("default", TRUE, Scale("px", 4, 0 - 1, Fix(2)))>>]}

GapVariants ==
    {[modes |-> <<Mode("default", TRUE, <<Entry("min", S("min")), Entry("s", N(1))>>)>>],
     [modes |-> <<>>],
     [modes |-> <<[name |-> "default", isDefault |-> TRUE]>>]}

TypographyVariants ==
    {[modes |-> <<Mode("default", TRUE,
                       [unit |-> "rem", base |-> 1, min |-> 1, increment |-> 1,
                        range |-> Fix(r)])>>] : r \in 0..1}

BorderVariants ==
    {Absent,
     [radius |-> [modes |-> <<Mode("default", TRUE, <<Entry("s", N(1))>>)>>]],
     [width |-> WidthFamily],
     [radius |-> [modes |-> <<Mode("default", TRUE, <<Entry("s", N(1))>>)>>],
      width |-> WidthFamily],
     [width |-> [modes |-> <<Mode("default", TRUE, [unit |-> "px", value |-> 0 - 1])>>]]}

TimeVariants ==
    {TimeFamily,
     [modes |-> <<Mode("default", TRUE, Scale("ms", 0 - 1, 50, Fix(2)))>>]}

\* a design system holding at most the one family f
Choices(f, variants) == {Absent} \cup {[k \in {f} |-> v] : v \in variants}

ValidationInputs ==
    {c @@ sp @@ g @@ ty @@ b @@ ti :
        c \in Choices("colors", ColorVariants),
        sp \in Choices("spacing", SpacingVariants),
        g \in Choices("gap", GapVariants),
        ty \in Choices("typography", TypographyVariants),
        b \in Choices("border", BorderVariants),
        ti \in Choices("time", TimeVariants)}

Init == \E ds \in ValidationInputs, uc \in UserConfigs : Called(ds, uc)
Spec == Init /\ [][Next]_vars

-----------------------------------------------------------------------------
(* Claims about validation *)

NothingGenerated ==
    /\ config = NoConfig
    /\ colorResult = NotRun /\ spacingResult = NotRun /\ gapResult = NotRun
    /\ typographyResult = NotRun /\ borderRadiusResult = NotRun
    /\ borderWidthResult = NotRun /\ timeResult = NotRun
    /\ ir = NoIR

\* the rules a configuration must satisfy, family by family
ModesOk(family) ==
    /\ "modes" \in DOMAIN family
    /\ Len(family.modes) > 0
    /\ \A i \in DOMAIN family.modes :
        family.modes[i].name # "" /\ "tokens" \in DOMAIN family.modes[i]

ScheduleOk(schedule) ==
    /\ Len(schedule) > 0
    /\ \A i \in DOMAIN schedule : schedule[i].value >= Fix(0) /\ schedule[i].value <= Fix(1)

RangeOk(range) == \E n \in 1..(MaxRange + 1) : range = Fix(n)

ColorsOk(colors) ==
    /\ ModesOk(colors)
    /\ "alphaSchedule" \in DOMAIN colors => ScheduleOk(colors.alphaSchedule)
    /\ \A i \in DOMAIN colors.modes :
        "alphaSchedule" \in DOMAIN colors.modes[i] => ScheduleOk(colors.modes[i].alphaSchedule)

ScaleFamilyOk(spacing) ==
    /\ ModesOk(spacing)
    /\ \A i \in DOMAIN spacing.modes :
        LET t == spacing.modes[i].tokens
        IN  t.unit # "" /\ t.base > 0 /\ t.min >= 0 /\ RangeOk(t.range)

BorderOk(border) ==
    /\ "radius" \in DOMAIN border => ModesOk(border.radius)
    /\ "width" \in DOMAIN border =>
        /\ ModesOk(border.width)
        /\ \A i \in DOMAIN border.width.modes :
            LET t == border.width.modes[i].tokens IN t.unit # "" /\ t.value >= 0

TimeOk(time) ==
    /\ ModesOk(time)
    /\ \A i \in DOMAIN time.modes :
        LET t == time.modes[i].tokens
        IN  t.unit # "" /\ t.base >= 0 /\ t.min >= 0 /\ RangeOk(t.range)

\* the checks in the order they are made: which are violated, and what each one throws
ChecksViolated(ds) ==
    <<DOMAIN ds = {},
      HasFamily(ds, "gap") /\ ~HasFamily(ds, "spacing"),
      HasRadius(ds) /\ ~HasFamily(ds, "spacing"),
      HasFamily(ds, "colors") /\ ~ColorsOk(ds.colors),
      HasFamily(ds, "spacing") /\ ~ScaleFamilyOk(ds.spacing),
      HasFamily(ds, "gap") /\ ~ModesOk(ds.gap),
      HasFamily(ds, "typography") /\ ~ScaleFamilyOk(ds.typography),
      HasFamily(ds, "border") /\ ~BorderOk(ds.border),
      HasFamily(ds, "time") /\ ~TimeOk(ds.time)>>

CheckThrows(ds, k) ==
    CASE k = 1 -> "At least one token family must be provided"
      [] k = 2 -> "Gap requires spacing (gap values reference spacing tokens)"
      [] k = 3 -> "Border radius requires spacing (radius values reference spacing tokens)"
      [] k = 4 -> validateColorsPartial(ds.colors)
      [] k = 5 -> validateSpacingPartial(ds.spacing)
      [] k = 6 -> validateGapPartial(ds.gap)
      [] k = 7 -> validateTypographyPartial(ds.typography)
      [] k = 8 -> validateBorderPartial(ds.border)
      [] k = 9 -> validateTimePartial(ds.time)

FirstViolated(ds) ==
    LET violated == ChecksViolated(ds)
    IN  IF \E k \in DOMAIN violated : violated[k]
        THEN CHOOSE k \in DOMAIN violated : violated[k] /\ \A j \in 1..(k - 1) : ~violated[j]
        ELSE 0

\* C1: generate validates first.  A configuration violating any rule never gets past
\* validation: the call throws the error of the first violated check, with no
\* configuration merged, no generator run and no IR produced; and whenever anything has
\* been generated, the configuration violates no rule and no error was raised.
C1_ValidateBeforeGenerate ==
    LET first == FirstViolated(designSystem)
    IN  /\ first # 0 => pc \in {"validate", "thrown"} /\ NothingGenerated
        /\ pc = "thrown" =>
            /\ first # 0
            /\ error # NoError
            /\ error = CheckThrows(designSystem, first)
            /\ NothingGenerated
        /\ pc \notin {"validate", "thrown"} => first = 0 /\ error = NoError

\* a call whose color family and spacing family both break a rule has thrown the color
\* family's error
C1_Witness ==
    /\ pc = "thrown"
    /\ ChecksViolated(designSystem)[4] /\ ChecksViolated(designSystem)[5]
    /\ FirstViolated(designSystem) = 4
    /\ error = validateColorsPartial(designSystem.colors)
    /\ error # validateSpacingPartial(designSystem.spacing)
    /\ NothingGenerated

\* C2: a configuration with gap but no spacing, or with border radius but no spacing,
\* is rejected by validation with the matching dependency error and generates nothing.
C2_ReferenceFamiliesNeedSpacing ==
    /\ (HasFamily(designSystem, "gap") /\ ~HasFamily(designSystem, "spacing")) =>
        /\ pc \in {"validate", "thrown"}
        /\ NothingGenerated
        /\ pc = "thrown" =>
            error = "Gap requires spacing (gap values reference spacing tokens)"
    /\ (HasRadius(designSystem) /\ ~HasFamily(designSystem, "spacing")) =>
        /\ pc \in {"validate", "thrown"}
        /\ NothingGenerated
        /\ (pc = "thrown" /\ ~HasFamily(designSystem, "gap")) =>
            error = "Border radius requires spacing (radius values reference spacing tokens)"

\* an otherwise well-formed configuration with border radius, no gap and no spacing has
\* been rejected
C2_Witness ==
    /\ pc = "thrown"
    /\ HasRadius(designSystem)
    /\ ~HasFamily(designSystem, "spacing") /\ ~HasFamily(designSystem, "gap")
    /\ HasFamily(designSystem, "colors") /\ ColorsOk(designSystem.colors)
    /\ error = "Border radius requires spacing (radius values reference spacing tokens)"

SpacingRangeRejected(ds) ==
    /\ HasFamily(ds, "spacing")
    /\ "modes" \in DOMAIN ds.spacing
    /\ \E i \in DOMAIN ds.spacing.modes :
        /\ "tokens" \in DOMAIN ds.spacing.modes[i]
        /\ \/ ds.spacing.modes[i].tokens.range <= Fix(0)
           \/ ~IsInteger(ds.spacing.modes[i].tokens.range)

SchedulesOf(colors) ==
    (IF "alphaSchedule" \in DOMAIN colors THEN {colors.alphaSchedule} ELSE {})
        \cup (IF "modes" \in DOMAIN colors
              THEN {colors.modes[i].alphaSchedule :
                        i \in {j \in DOMAIN colors.modes :
                                    "alphaSchedule" \in DOMAIN colors.modes[j]}}
              ELSE {})

AlphaRejected(ds) ==
    /\ HasFamily(ds, "colors")
    /\ \E schedule \in SchedulesOf(ds.colors) :
        \E i \in DOMAIN schedule : schedule[i].value < Fix(0) \/ schedule[i].value > Fix(1)

AllTokensOf(result) ==
    result.defaultTokens
        \o Flatten([k \in DOMAIN result.overrideTokens |-> result.overrideTokens[k].value])

\* C3: a spacing mode whose range is zero, negative or not an integer, and an alpha
\* schedule holding a value outside [0,1], make validation fail before anything is
\* generated; hence every emitted alpha token has a rawValue in [0,1] and every spacing
\* mode emits at least one indexed token besides its min token.
C3_RangeAndAlphaBounds ==
    /\ (SpacingRangeRejected(designSystem) \/ AlphaRejected(designSystem)) =>
        /\ pc \in {"validate", "thrown"}
        /\ NothingGenerated
    /\ colorResult # NotRun =>
        \A j \in DOMAIN AllTokensOf(colorResult) :
            LET tok == AllTokensOf(colorResult)[j]
            IN  IsAlphaToken(tok) => tok.rawValue >= Fix(0) /\ tok.rawValue <= Fix(1)
    /\ (spacingResult # NotRun /\ HasFamily(designSystem, "spacing")) =>
        \A i \in DOMAIN designSystem.spacing.modes :
            LET toks == EmittedFor(spacingResult, designSystem.spacing.modes, i)
            IN  \E j \in DOMAIN toks :
                    toks[j].name = config.prefixes.spacing \o "-1"

\* a configuration whose only faults are an alpha value above 1 and a spacing range of
\* zero has been rejected for its alpha value
C3_Witness ==
    /\ pc = "thrown"
    /\ AlphaRejected(designSystem)
    /\ SpacingRangeRejected(designSystem)
    /\ designSystem.colors.alphaSchedule = ScheduleOutOfRange
    /\ \E i \in DOMAIN designSystem.spacing.modes :
        designSystem.spacing.modes[i].tokens.range = Fix(0)
    /\ error = validateAlphaSchedule(ScheduleOutOfRange, "colors.alphaSchedule")
    /\ NothingGenerated

-----------------------------------------------------------------------------
(* Configurations with several families and several modes per family *)

TimeModesNamed(name) ==
    {Mode(name, d, Scale("ms", b, 1, Fix(r))) :
        d \in BOOLEAN, b \in 0..MaxBase, r \in 1..MaxRange}

TimeFamilies ==
    {[modes |-> l] : l \in ModeLists(TimeModesNamed("fast"), TimeModesNamed("slow"))}
        \cup {[modes |-> <<Mode("a", d1, Scale("ms", 1, 0, Fix(1))),
                           Mode("b", d2, Scale("s", 2, 1, Fix(2))),
                           Mode("c", d3, Scale("ms", 3, 1, Fix(1)))>>] :
                d1 \in BOOLEAN, d2 \in BOOLEAN, d3 \in BOOLEAN}

\* spacing families of one to three modes under every combination of flags, and one
\* whose override mode repeats the default mode's scale
SpacingShapes ==
    {[modes |-> <<SpDefault(d1), SpSmall(d2), SpLarge(d3)>>] :
        d1 \in BOOLEAN, d2 \in BOOLEAN, d3 \in BOOLEAN}
    \cup {[modes |-> <<SpDefault(d1), SpSmall(d2)>>] : d1 \in BOOLEAN, d2 \in BOOLEAN}
    \cup {[modes |-> <<SpDefault(d)>>] : d \in BOOLEAN}
    \cup {[modes |-> <<SpDefault(TRUE), Mode("dark", FALSE, Scale("px", 2, 1, Fix(2)))>>]}

ColorShapes ==
    {ColorFamily(<<Mode("light", TRUE, <<Entry("bg", "c1")>>)>>, <<ScheduleFamily>>),
     ColorFamily(<<Mode("light", FALSE, <<Entry("bg", "c1")>>),
                   Mode("dark", FALSE, <<Entry("bg", "c2")>>)>>, NoSchedule),
     ColorFamily(<<Mode("light", FALSE, <<Entry("bg", "c1")>>),
                   Mode("dark", TRUE, <<Entry("bg", "c1"), Entry("ink", "c2")>>)>>,
                 <<ScheduleFamily>>),
     ColorFamily(<<Mode("light", TRUE, <<Entry("bg", "c1")>>),
                   Mode("small", FALSE, <<>>),
                   Mode("dark", TRUE, <<Entry("bg", "c1")>>)>>, NoSchedule)}

TypographyShapes ==
    {[modes |-> <<Mode("default", d, [unit |-> "rem", base |-> 1, min |-> 1,
                                      increment |-> 1, range |-> Fix(2)]),
                   Mode(n, FALSE, [unit |-> "rem", base |-> 2, min |-> 1,
                                   increment |-> 1, range |-> Fix(1)])>>] :
        d \in BOOLEAN, n \in {"small", "huge"}}

WidthShapes ==
    {WidthFamily,
     [modes |-> <<Mode("thin", FALSE, [unit |-> "px", value |-> 1]),
                  Mode("dark", FALSE, [unit |-> "px", value |-> 1])>>]}

ReferenceShapes ==
    {[modes |-> <<Mode("default", TRUE, <<Entry("s", N(1))>>),
                  Mode("wide", FALSE, <<Entry("s", N(2))>>)>>],
     [modes |-> <<Mode("small", FALSE, <<Entry("min", S("min"))>>)>>]}

IRInputs ==
    {[time |-> t] : t \in TimeFamilies}
    \cup {c @@ sp @@ ty @@ bw @@ g @@ ti :
            c \in Choices("colors", ColorShapes),
            sp \in Choices("spacing", SpacingShapes),
            ty \in Choices("typography", TypographyShapes),
            bw \in {Absent} \cup {[border |-> [width |-> w]] : w \in WidthShapes}
                    \cup {[border |-> [radius |-> r]] : r \in ReferenceShapes},
            g \in Choices("gap", ReferenceShapes),
            ti \in Choices("time", {TimeFamily})}

InitIR == \E ds \in IRInputs, uc \in UserConfigs : Called(ds, uc)
SpecIR == InitIR /\ [][Next]_vars

-----------------------------------------------------------------------------
(* Claims about modes and the assembled IR *)

RECURSIVE SumSeq(_)
SumSeq(ns) == IF ns = <<>> THEN 0 ELSE Head(ns) + SumSeq(Tail(ns))

\* the position of the default mode: the first flagged one, the first one when none is
ExpectedDefault(modes) ==
    CHOOSE k \in DOMAIN modes :
        \/ modes[k].isDefault /\ \A j \in DOMAIN modes : modes[j].isDefault => k <= j
        \/ k = 1 /\ \A j \in DOMAIN modes : ~modes[j].isDefault

\* the names of all the other modes, in their original order
ExpectedOverrideNames(modes) ==
    LET others == SelectSeq([i \in DOMAIN modes |-> i], LAMBDA i : i # ExpectedDefault(modes))
    IN  [k \in DOMAIN others |-> modes[others[k]].name]

\* C11: the time generator puts every mode's tokens in one default list: {prefix}-min
\* and {prefix}-{i} for the default mode, {prefix}-{modeName}-min and
\* {prefix}-{modeName}-{i} for every other mode, each holding base*i (min for the min
\* token) and the owning mode's name as metadata; overrideTokens and the override-name
\* list are empty, and the list holds the sum over all modes of range+1 tokens.
C11_TimeFlattened ==
    (timeResult # NotRun /\ HasFamily(designSystem, "time")) =>
        LET modes == designSystem.time.modes
            toks == timeResult.defaultTokens
        IN  /\ timeResult.overrideTokens = <<>>
            /\ timeResult.modeInfo.overrides = <<>>
            /\ Len(toks) = SumSeq([i \in DOMAIN modes |-> modes[i].tokens.range \div Denom + 1])
            /\ \A i \in DOMAIN modes :
                LET t == modes[i].tokens
                    prefix == IF i = ExpectedDefault(modes) THEN config.prefixes.time
                              ELSE config.prefixes.time \o "-" \o modes[i].name
                IN  /\ \E j \in DOMAIN toks :
                        /\ toks[j].name = prefix \o "-min"
                        /\ toks[j].rawValue = t.min
                        /\ toks[j].metadata.timeCategory = modes[i].name
                    /\ \A n \in 1..(t.range \div Denom) :
                        \E j \in DOMAIN toks :
                            /\ toks[j].name = prefix \o "-" \o ToString(n)
                            /\ toks[j].rawValue = t.base * n
                            /\ toks[j].metadata.timeCategory = modes[i].name

\* a time family whose second mode is the flagged default has been flattened
C11_Witness ==
    /\ Returned
    /\ HasFamily(designSystem, "time")
    /\ Len(designSystem.time.modes) = 2
    /\ ExpectedDefault(designSystem.time.modes) = 2
    /\ designSystem.time.modes[1].tokens.range = Fix(MaxRange)
    /\ HasToken(timeResult.defaultTokens, "t-fast-" \o ToString(MaxRange))
    /\ HasToken(timeResult.defaultTokens, "t-1")
    /\ Len(timeResult.defaultTokens) > MaxRange + 1

ModeSplitOk(result, modes) ==
    /\ result.modeInfo.default = modes[ExpectedDefault(modes)].name
    /\ result.modeInfo.overrides = ExpectedOverrideNames(modes)

\* C12: in every non-empty mode list the default is the first mode flagged isDefault,
\* or the first mode when none is flagged; the overrides are all the other modes in
\* their original order.
C12_DefaultAndOverrides ==
    /\ (spacingResult # NotRun /\ HasFamily(designSystem, "spacing")) =>
        /\ ModeSplitOk(spacingResult, designSystem.spacing.modes)
        /\ spacingResult.defaultTokens =
            generateSpacingTokensForMode(
                designSystem.spacing.modes[ExpectedDefault(designSystem.spacing.modes)], config)
    /\ (colorResult # NotRun /\ HasFamily(designSystem, "colors")) =>
        ModeSplitOk(colorResult, designSystem.colors.modes)
    /\ (typographyResult # NotRun /\ HasFamily(designSystem, "typography")) =>
        ModeSplitOk(typographyResult, designSystem.typography.modes)
    /\ (timeResult # NotRun /\ HasFamily(designSystem, "time")) =>
        timeResult.modeInfo.default
            = designSystem.time.modes[ExpectedDefault(designSystem.time.modes)].name

\* a spacing family of three modes whose second and third are both flagged has the
\* second as default and the first and third, in that order, as overrides
C12_Witness ==
    /\ Returned
    /\ HasFamily(designSystem, "spacing")
    /\ Len(designSystem.spacing.modes) = 3
    /\ ~designSystem.spacing.modes[1].isDefault
    /\ designSystem.spacing.modes[2].isDefault
    /\ designSystem.spacing.modes[3].isDefault
    /\ spacingResult.modeInfo.default = designSystem.spacing.modes[2].name
    /\ spacingResult.modeInfo.overrides
            = <<designSystem.spacing.modes[1].name, designSystem.spacing.modes[3].name>>

SizeOverrideNames(ds) ==
    (IF HasFamily(ds, "spacing") THEN Range(ExpectedOverrideNames(ds.spacing.modes)) ELSE {})
    \cup (IF HasFamily(ds, "gap") THEN Range(ExpectedOverrideNames(ds.gap.modes)) ELSE {})
    \cup (IF HasFamily(ds, "typography")
          THEN Range(ExpectedOverrideNames(ds.typography.modes)) ELSE {})
    \cup (IF HasRadius(ds) THEN Range(ExpectedOverrideNames(ds.border.radius.modes)) ELSE {})
    \cup (IF HasWidth(ds) THEN Range(ExpectedOverrideNames(ds.border.width.modes)) ELSE {})

\* C13: in a returned IR, modes.size.overrides is the duplicate-free union of the
\* override mode names of spacing, gap, typography, border radius and border width, and
\* modes.color.overrides is the list of the color family's override mode names.
C13_ModeCategories ==
    Returned =>
        /\ Range(ir.modes.size.overrides) = SizeOverrideNames(designSystem)
        /\ Cardinality(Range(ir.modes.size.overrides)) = Len(ir.modes.size.overrides)
        /\ ir.modes.color.overrides =
            IF HasFamily(designSystem, "colors")
            THEN ExpectedOverrideNames(designSystem.colors.modes) ELSE <<>>

\* an IR whose size category gathers a name only border width has, a name only
\* typography has, and a name spacing and typography share
C13_Witness ==
    /\ Returned
    /\ HasWidth(designSystem) /\ HasFamily(designSystem, "spacing")
    /\ HasFamily(designSystem, "typography") /\ HasFamily(designSystem, "colors")
    /\ "thick" \in Range(ir.modes.size.overrides)
    /\ "small" \in Range(ExpectedOverrideNames(designSystem.spacing.modes))
    /\ "small" \in Range(ExpectedOverrideNames(designSystem.typography.modes))
    /\ "large" \in Range(ir.modes.size.overrides)
    /\ Len(ir.modes.size.overrides) = 3
    /\ ir.modes.color.overrides = <<"light">>

\* C14 (as stated): every token stored under an override mode name in a returned IR
\* has a value that differs from the default token of the same name.
C14_OverrideTokensSparse ==
    Returned =>
        \A m \in DOMAIN ir.overrideTokens :
            \A k \in DOMAIN ir.overrideTokens[m].value :
                LET entry == ir.overrideTokens[m].value[k]
                IN  Has(ir.tokens, entry.key) =>
                        Get(ir.tokens, entry.key).value # entry.value.value

-----------------------------------------------------------------------------
(* IRs and options handed to toCss *)

NextCss == Next \/ ToCss

CssConfigs ==
    {NoCssConfig,
     [selectors |-> [root |-> <<"html">>, colorMode |-> <<".", Placeholder, "-theme">>]],
     [selectors |-> [sizeMode |-> <<"[size=\"", Placeholder, "\"] .", Placeholder>>],
      fileHeader |-> HeaderOff],
     [fileHeader |-> [toolName |-> "three-forma-styli", toolVersion |-> "0.1.2"]],
     [fileHeader |-> [toolName |-> "three-forma-styli", toolVersion |-> "0.1.2",
                      includeTimestamp |-> TRUE, customLines |-> <<"Do not edit">>]]}

\* configurations to generate an IR from, one of them naming a color mode and a size
\* mode alike
CssDesigns ==
    {[colors |-> ColorFamily(<<Mode("light", TRUE, <<Entry("bg", "c1")>>),
                               Mode("dark", FALSE, <<Entry("bg", "c2")>>)>>, NoSchedule),
      spacing |-> [modes |-> <<SpDefault(TRUE), SpSmall(FALSE)>>],
      time |-> TimeFamily],
     [colors |-> ColorFamily(<<Mode("light", TRUE, <<Entry("bg", "c1")>>),
                               Mode("dark", FALSE, <<Entry("bg", "c2")>>)>>, NoSchedule),
      spacing |-> [modes |-> <<SpDefault(TRUE),
                               Mode("dark", FALSE, Scale("px", 1, 0, Fix(1)))>>]],
     [colors |-> ColorFamily(<<Mode("light", TRUE, <<Entry("bg", "c1")>>),
                               Mode("dim", FALSE, <<>>)>>, <<ScheduleFamily>>)],
     [typography |-> [modes |-> <<Mode("default", TRUE,
                                       [unit |-> "rem", base |-> 1, min |-> 1,
                                        increment |-> 1, range |-> Fix(1)])>>]],
     [gap |-> [modes |-> <<Mode("default", TRUE, <<Entry("s", N(1))>>)>>]]}

CssToken(name, value) == Entry(name, [family |-> "color", name |-> name, value |-> value])

\* an overrideTokens entry for a mode name: none, one without tokens, one with tokens
EntryChoices(modeName) ==
    {<<>>, <<Entry(modeName, <<>>)>>,
     <<Entry(modeName, <<CssToken("clr-bg", modeName), CssToken("sp-1", "1px")>>)>>}

\* IRs built by hand: their override entries need not match their category lists
ExternalIRs ==
    {[tokens |-> tk,
      modes |-> [color |-> [default |-> "light", overrides |-> co],
                 size |-> [default |-> "default", overrides |-> so],
                 time |-> [default |-> "default", overrides |-> to]],
      overrideTokens |-> e1 \o e2 \o e3 \o e4] :
        tk \in {<<>>, <<CssToken("clr-bg", "white"), CssToken("sp-1", "8px")>>},
        co \in {<<>>, <<"dark">>},
        so \in {<<>>, <<"small">>, <<"small", "dark">>},
        to \in {<<>>, <<"slow">>},
        e1 \in EntryChoices("dark"), e2 \in EntryChoices("small"),
        e3 \in EntryChoices("slow"), e4 \in EntryChoices("ghost")}

InitCss ==
    \/ \E ds \in CssDesigns, cc \in CssConfigs : CalledThen(ds, NoUserConfig, cc)
    \/ \E anIR \in ExternalIRs, cc \in CssConfigs : Holding(anIR, cc)

SpecCss == InitCss /\ [][NextCss]_vars

-----------------------------------------------------------------------------
(* Claims about toCss *)

Rendered == css # NoCss

BlocksOfKind(kind) == {i \in DOMAIN cssBlocks : cssBlocks[i].kind = kind}

ConfiguredRoot ==
    IF "selectors" \in DOMAIN cssConfig /\ "root" \in DOMAIN cssConfig.selectors
    THEN Join(cssConfig.selectors.root, "") ELSE ":root"

\* C15: toCss renders exactly one base block, before every override block, under the
\* configured root selector (:root by default); it holds one line `  --{name}: {value};`
\* for every token of ir.tokens, in their order, and nothing else.
C15_RootBlock ==
    Rendered =>
        /\ Cardinality(BlocksOfKind("root")) = 1
        /\ \A i \in BlocksOfKind("root") :
            /\ \A j \in BlocksOfKind("override") : i < j
            /\ cssBlocks[i].selector = ConfiguredRoot
            /\ Len(cssBlocks[i].lines) = Len(ir.tokens)
            /\ \A k \in DOMAIN ir.tokens :
                cssBlocks[i].lines[k] =
                    "  --" \o ir.tokens[k].key \o ": " \o ir.tokens[k].value.value \o ";"
            /\ cssBlocks[i].text =
                ConfiguredRoot \o " {\n" \o Join(cssBlocks[i].lines, "\n") \o "\n}"

\* an IR generated from colors, spacing and time has been rendered under a root
\* selector of the caller's, followed by override blocks
C15_Witness ==
    /\ Rendered
    /\ HasFamily(designSystem, "time")
    /\ ConfiguredRoot = "html"
    /\ Len(ir.tokens) > 4
    /\ BlocksOfKind("override") # {}
    /\ \E i \in BlocksOfKind("root") : Len(cssBlocks[i].lines) = Len(ir.tokens)

InSomeCategory(modeName, anIR) ==
    \E c \in {"color", "size", "time"} : modeName \in Range(anIR.modes[c].overrides)

\* C16: for any IR, generated or built by hand, an entry of ir.overrideTokens is
\* rendered, as exactly one block, if and only if its mode name is in the override list
\* of some category and its token set is not empty; any other entry leaves no block, and
\* toCss returns.
C16_OverrideBlocks ==
    Rendered =>
        /\ \A e \in DOMAIN ir.overrideTokens :
            Cardinality({i \in BlocksOfKind("override") :
                            cssBlocks[i].mode = ir.overrideTokens[e].key})
                = IF InSomeCategory(ir.overrideTokens[e].key, ir)
                        /\ Len(ir.overrideTokens[e].value) > 0
                  THEN 1 ELSE 0
        /\ \A i \in BlocksOfKind("override") :
            \E e \in DOMAIN ir.overrideTokens :
                /\ cssBlocks[i].mode = ir.overrideTokens[e].key
                /\ Len(cssBlocks[i].lines) = Len(ir.overrideTokens[e].value)
        /\ Len(cssBlocks) = Cardinality(BlocksOfKind("header")) + 1
                                + Cardinality(BlocksOfKind("override"))

\* a hand-built IR with a time-category entry that is rendered, an entry in no category
\* and an entry without tokens has produced the one block
C16_Witness ==
    /\ Rendered
    /\ designSystem = <<>>
    /\ Has(ir.overrideTokens, "ghost") /\ Len(Get(ir.overrideTokens, "ghost")) > 0
    /\ Has(ir.overrideTokens, "dark") /\ Len(Get(ir.overrideTokens, "dark")) = 0
    /\ "dark" \in Range(ir.modes.color.overrides)
    /\ Has(ir.overrideTokens, "slow") /\ Len(Get(ir.overrideTokens, "slow")) > 0
    /\ "slow" \in Range(ir.modes.time.overrides)
    /\ ~Has(ir.overrideTokens, "small")
    /\ Cardinality(BlocksOfKind("override")) = 1

CategoryTemplate(c) ==
    LET selectors == mergeCssConfig(cssConfig).selectors
    IN  CASE c = "color" -> selectors.colorMode
          [] c = "size" -> selectors.sizeMode
          [] c = "time" -> selectors.timeMode

\* C17 (as stated): a rendered override mode that belongs to a category is rendered
\* under that category's selector template, with its name in place of {mode}, and under
\* no other category's template.
C17_CategorySelectors ==
    Rendered =>
        \A i \in BlocksOfKind("override") :
            \A c \in {"color", "size", "time"} :
                cssBlocks[i].mode \in Range(ir.modes[c].overrides) =>
                    cssBlocks[i].selector = ReplaceFirst(CategoryTemplate(c), cssBlocks[i].mode)

TimestampOn ==
    /\ "fileHeader" \in DOMAIN cssConfig
    /\ cssConfig.fileHeader # HeaderOff
    /\ "includeTimestamp" \in DOMAIN cssConfig.fileHeader
    /\ cssConfig.fileHeader.includeTimestamp

-----------------------------------------------------------------------------
(* Sessions of several generate calls *)

\* configurations with and without the color, spacing and time families, one of them
\* rejected by validation
SessionDesigns ==
    {[colors |-> ColorFamily(<<Mode("light", TRUE, <<Entry("bg", "c1")>>),
                               Mode("dark", FALSE, <<Entry("bg", "c2")>>)>>, NoSchedule)],
     [spacing |-> [modes |-> <<SpDefault(TRUE), SpSmall(FALSE)>>]],
     [time |-> TimeFamily],
     [colors |-> ColorFamily(<<Mode("light", TRUE, <<Entry("bg", "c1")>>)>>, NoSchedule),
      spacing |-> [modes |-> <<SpDefault(TRUE)>>],
      time |-> TimeFamily],
     [gap |-> [modes |-> <<Mode("default", TRUE, <<Entry("s", N(1))>>)>>]]}

SessionConfigs == {NoUserConfig}

\* the caller calls generate again, keeping the IR the call before returned
CallAgain ==
    /\ pc \in {"returned", "thrown"}
    /\ calls < MaxCalls
    /\ calls' = calls + 1
    /\ kept' = IF pc = "returned"
               THEN [ds |-> designSystem, uc |-> userConfig, returned |-> ir, ir |-> ir,
                     shared |-> irShared]
               ELSE kept
    /\ \E ds \in SessionDesigns, uc \in SessionConfigs :
        /\ designSystem' = ds
        /\ userConfig' = uc
    /\ pc' = "validate"
    /\ error' = NoError
    /\ config' = NoConfig
    /\ colorResult' = NotRun
    /\ spacingResult' = NotRun
    /\ gapResult' = NotRun
    /\ typographyResult' = NotRun
    /\ borderRadiusResult' = NotRun
    /\ borderWidthResult' = NotRun
    /\ timeResult' = NotRun
    /\ ir' = NoIR
    /\ irShared' = {}
    /\ UNCHANGED <<moduleVars, mutated, cssVars, lumVars>>

\* anIR after modeName is pushed onto the override arrays of the given categories
Pushed(anIR, categories, modeName) ==
    [anIR EXCEPT !.modes =
        [c \in DOMAIN anIR.modes |->
            IF c \in categories
            THEN [anIR.modes[c] EXCEPT !.overrides = Append(@, modeName)]
            ELSE anIR.modes[c]]]

\* between two calls, or after the later one, the caller does
\* kept.ir.modes[category].overrides.push(modeName); an array that is the module's
\* emptyResult.modeInfo.overrides changes wherever it is reachable from
MutateIR ==
    /\ pc \in {"validate", "returned", "thrown"}
    /\ kept # NoIR
    /\ ~mutated
    /\ mutated' = TRUE
    /\ \E category \in {"color", "size", "time"}, modeName \in {"dark", "x"} :
        IF category \in kept.shared
        THEN /\ emptyResultOverrides' = Append(emptyResultOverrides, modeName)
             /\ kept' = [kept EXCEPT !.ir = Pushed(@, kept.shared, modeName)]
             /\ ir' = IF pc = "returned" THEN Pushed(ir, irShared, modeName) ELSE ir
        ELSE /\ kept' = [kept EXCEPT !.ir = Pushed(@, {category}, modeName)]
             /\ UNCHANGED <<emptyResultOverrides, ir>>
    /\ UNCHANGED <<designSystem, userConfig, pc, error, config, colorResult, spacingResult,
                   gapResult, typographyResult, borderRadiusResult, borderWidthResult,
                   timeResult, irShared, calls, cssVars, lumVars>>

InitSession == \E ds \in SessionDesigns, uc \in SessionConfigs : Called(ds, uc)

NextSession == Next \/ CallAgain \/ MutateIR

SpecSession == InitSession /\ [][NextSession]_vars

-----------------------------------------------------------------------------
(* Claims about determinism and aliasing of generate *)

SameInputsAsKept == kept # NoIR /\ kept.ds = designSystem /\ kept.uc = userConfig

\* C18 (as stated): a generate call whose configuration and options are deep-equal to
\* those of an earlier call returns an IR deep-equal to the one the earlier call
\* returned, whatever happened in between.
C18_Deterministic ==
    [][(pc = "assemble" /\ pc' = "returned" /\ SameInputsAsKept) => ir' = kept.returned]_vars

\* C20 (as stated): pushing a name onto an override list of a returned IR changes
\* neither another returned IR nor the module-level state that later calls read.
C20_NoAliasing ==
    [][(~mutated /\ mutated') =>
            /\ ir' = ir
            /\ emptyResultOverrides' = emptyResultOverrides]_vars

-----------------------------------------------------------------------------
(* Claims about partial configurations *)

TokenFamilies ==
    {"color", "spacing", "gap", "typography", "borderRadius", "borderWidth", "time"}

\* whether the configuration holds the family whose tokens carry the name f
Present(ds, f) ==
    CASE f = "color" -> HasFamily(ds, "colors")
      [] f = "borderRadius" -> HasRadius(ds)
      [] f = "borderWidth" -> HasWidth(ds)
      [] OTHER -> HasFamily(ds, f)

\* what the generator of family f gives for the family's own configuration
GeneratedAlone(ds, f, cfg) ==
    CASE f = "color" -> generateColorTokens(ds.colors, cfg)
      [] f = "spacing" -> generateSpacingTokens(ds.spacing, cfg)
      [] f = "gap" -> generateGapTokens(ds.gap, ds.spacing, cfg)
      [] f = "typography" -> generateTypographyTokens(ds.typography, cfg)
      [] f = "borderRadius" -> generateBorderRadiusTokens(ds.border.radius, ds.spacing, cfg)
      [] f = "borderWidth" -> generateBorderWidthTokens(ds.border.width, cfg)
      [] f = "time" -> generateTimeTokens(ds.time, cfg)

TokensOfFamily(record, f) ==
    LET OfFamily(e) == e.value.family = f
    IN  SelectSeq(record, OfFamily)

\* C21: a configuration that passes validation never makes generate fail; the returned
\* IR holds no token of an absent family, in tokens or in any overrideTokens entry, and
\* for a family that is present it holds, in tokens and under each override mode, the
\* tokens that family's generator gives for the family's configuration.
C21_PartialInput ==
    /\ validatePartialDesignSystem(designSystem) = NoError => pc # "thrown"
    /\ Returned =>
        \A f \in TokenFamilies :
            IF Present(designSystem, f)
            THEN LET alone == GeneratedAlone(designSystem, f, mergeConfig(userConfig))
                 IN  /\ TokensOfFamily(ir.tokens, f) = tokensToRecord(alone.defaultTokens)
                     /\ \A e \in DOMAIN ir.overrideTokens :
                            TokensOfFamily(ir.overrideTokens[e].value, f) =
                                tokensToRecord(OverrideTokensOf(alone,
                                                                ir.overrideTokens[e].key))
                     /\ \A o \in DOMAIN alone.overrideTokens :
                            Len(alone.overrideTokens[o].value) > 0 =>
                                Has(ir.overrideTokens, alone.overrideTokens[o].key)
            ELSE /\ TokensOfFamily(ir.tokens, f) = <<>>
                 /\ \A e \in DOMAIN ir.overrideTokens :
                        TokensOfFamily(ir.overrideTokens[e].value, f) = <<>>

\* an IR has been returned for spacing and gap with override modes, without colors,
\* typography, border and time
C21_Witness ==
    /\ Returned
    /\ DOMAIN designSystem = {"spacing", "gap"}
    /\ Len(ir.tokens) > 3
    /\ Len(ir.overrideTokens) > 1
    /\ \E e \in DOMAIN ir.overrideTokens :
        /\ TokensOfFamily(ir.overrideTokens[e].value, "gap") # <<>>
        /\ TokensOfFamily(ir.overrideTokens[e].value, "spacing") = <<>>

NoFamily(ds) ==
    DOMAIN ds \cap {"colors", "spacing", "gap", "typography", "border", "time"} = {}

EmptyIR == Returned /\ ir.tokens = <<>> /\ ir.overrideTokens = <<>>

-----------------------------------------------------------------------------
(* Configurations whose token names meet *)

\* a color whose name reads like the alpha variant of another color, time modes of one
\* name, and families without either, in every combination
NameDesigns ==
    {c @@ sp @@ g @@ ti :
        c \in Choices("colors",
                {ColorFamily(<<Mode("light", TRUE, <<Entry("bg", "c1"), Entry("bg-a-f", "c2")>>)>>,
                             <<ScheduleFamily>>),
                 ColorFamily(<<Mode("light", TRUE, <<Entry("bg", "c1"), Entry("ink", "c2")>>),
                               Mode("dark", FALSE, <<Entry("bg", "c2")>>)>>,
                             <<ScheduleFamily>>)}),
        sp \in Choices("spacing", {[modes |-> <<SpDefault(TRUE), SpSmall(FALSE)>>],
                                   [modes |-> <<SpDefault(TRUE),
                                                Mode("dark", FALSE, Scale("px", 1, 0, Fix(1)))>>]}),
        g \in Choices("gap", ReferenceShapes),
        ti \in Choices("time",
                {TimeFamily,
                 [modes |-> <<Mode("default", TRUE, Scale("ms", 1, 0, Fix(1))),
                              Mode("fast", FALSE, Scale("ms", 1, 0, Fix(1))),
                              Mode("fast", FALSE, Scale("ms", 2, 1, Fix(2)))>>]})}

InitNames == \E ds \in NameDesigns, uc \in UserConfigs : Called(ds, uc)
SpecNames == InitNames /\ [][Next]_vars

-----------------------------------------------------------------------------
(* Claims about token names *)

NoRepeat(names) == \A i, j \in DOMAIN names : names[i] = names[j] => i = j

FamilyResults ==
    <<colorResult, spacingResult, gapResult, typographyResult, borderRadiusResult,
      borderWidthResult, timeResult>>

TokenNames(tokens) == [i \in DOMAIN tokens |-> tokens[i].name]

\* C23 (as stated): under the default prefixes, in every IR generate returns, no two
\* token records concatenated into the default scope have the same name, and no two
\* token records gathered for one override mode have the same name.
C23_UniqueNames ==
    (Returned /\ userConfig = NoUserConfig) =>
        /\ NoRepeat(TokenNames(Flatten([i \in DOMAIN FamilyResults |->
                                            FamilyResults[i].defaultTokens])))
        /\ \A modeName \in Range(AllOverrideModes(FamilyResults)) :
            NoRepeat(TokenNames(Flatten([i \in DOMAIN FamilyResults |->
                                    OverrideTokensOf(FamilyResults[i], modeName)])))

-----------------------------------------------------------------------------
(* Claims about toCss applied to generated IRs *)

SizeFamilies == {"spacing", "gap", "typography", "borderRadius", "borderWidth"}

\* the token families whose declarations stand in an override block
FamiliesIn(block) ==
    LET tokens == Get(ir.overrideTokens, block.mode)
    IN  {tokens[k].value.family : k \in DOMAIN block.lines}

\* C26 (as stated): in the CSS of a generated IR every declaration of a block under the
\* color-mode selector is a color token, and every declaration of a block under the
\* size-mode selector is a token of a size family.
C26_AxesApart ==
    (Rendered /\ calls > 0) =>
        \A i \in BlocksOfKind("override") :
            LET block == cssBlocks[i]
            IN  /\ block.selector = ReplaceFirst(CategoryTemplate("color"), block.mode) =>
                        FamiliesIn(block) \subseteq {"color"}
                /\ block.selector = ReplaceFirst(CategoryTemplate("size"), block.mode) =>
                        FamiliesIn(block) \subseteq SizeFamilies

-----------------------------------------------------------------------------
(* Claims about references to spacing tokens *)

\* the tokens spacingResult holds for the spacing mode sm
SpacingTokensOf(sm) ==
    LET modes == designSystem.spacing.modes
    IN  EmittedFor(spacingResult, modes, CHOOSE j \in DOMAIN modes : modes[j] = sm)

ValueKeys(mode) == {mode.tokens[k].key : k \in DOMAIN mode.tokens} \ {"unit", "spacingMode"}

\* whether the spacing mode sm emits a token for the value held under a gap key
Emitted(held, sm) ==
    held = S("min") \/ (held.n >= 1 /\ Fix(held.n) <= sm.tokens.range)

Resolves(tok, sm) ==
    /\ HasToken(SpacingTokensOf(sm), tok.reference)
    /\ TokenNamed(SpacingTokensOf(sm), tok.reference).rawValue = tok.rawValue

\* the reference families with their results and prefixes, when they have been generated
ReferenceRuns ==
    (IF gapResult # NotRun /\ HasFamily(designSystem, "gap")
     THEN {[modes |-> designSystem.gap.modes, result |-> gapResult,
            prefix |-> config.prefixes.gap]}
     ELSE {})
    \cup (IF borderRadiusResult # NotRun /\ HasRadius(designSystem)
          THEN {[modes |-> designSystem.border.radius.modes, result |-> borderRadiusResult,
                 prefix |-> config.prefixes.borderRadius]}
          ELSE {})

\* C27 (as stated): the reference of every gap or border-radius token names a token
\* that the chosen spacing mode emits, and that token's rawValue is the token's own.
C27_ReferencesResolve ==
    \A run \in ReferenceRuns :
        \A i \in DOMAIN run.modes :
            \A sm \in ChosenSpacingModes(run.modes[i], designSystem.spacing.modes) :
                LET toks == EmittedFor(run.result, run.modes, i)
                IN  \A j \in DOMAIN toks : Resolves(toks[j], sm)

\* C27 (amended): the reference of a gap or border-radius token is {spacingPrefix}-min
\* for "min" and {spacingPrefix}-{n} for an integer n; for "min" and for n between 1 and
\* the chosen spacing mode's range it names a token that spacing mode emits, with the
\* same rawValue; for any other n, which validation does not reject, it names no
\* emitted token.
C27_ReferencesResolveInRange ==
    \A run \in ReferenceRuns :
        \A i \in DOMAIN run.modes :
            \A sm \in ChosenSpacingModes(run.modes[i], designSystem.spacing.modes) :
                LET toks == EmittedFor(run.result, run.modes, i)
                IN  \A key \in ValueKeys(run.modes[i]) :
                        LET tok == TokenNamed(toks, run.prefix \o "-" \o key)
                            held == Get(run.modes[i].tokens, key)
                        IN  /\ tok.reference =
                                    config.prefixes.spacing \o "-" \o
                                        (IF held = S("min") THEN "min" ELSE ToString(held.n))
                            /\ IF Emitted(held, sm) THEN Resolves(tok, sm)
                               ELSE ~HasToken(SpacingTokensOf(sm), tok.reference)

\* a gap mode resolved against a spacing mode other than the default one has emitted a
\* token for "min" and a token for an index within that spacing mode's range
C27_Witness ==
    /\ Returned
    /\ HasFamily(designSystem, "gap")
    /\ \E i \in DOMAIN designSystem.gap.modes :
        LET mode == designSystem.gap.modes[i]
            toks == EmittedFor(gapResult, designSystem.gap.modes, i)
        IN  /\ Has(mode.tokens, "min") /\ Has(mode.tokens, "xl")
            /\ Len(toks) = 3
            /\ \E sm \in ChosenSpacingModes(mode, designSystem.spacing.modes) :
                /\ sm # getDefaultMode(designSystem.spacing.modes)
                /\ \A j \in DOMAIN toks : Resolves(toks[j], sm)

-----------------------------------------------------------------------------
(* Claims about the modes of generated IRs *)

EntriesCategorized(anIR) ==
    /\ anIR.modes.time.overrides = <<>>
    /\ \A e \in DOMAIN anIR.overrideTokens :
        /\ anIR.overrideTokens[e].key \in
                Range(anIR.modes.color.overrides) \cup Range(anIR.modes.size.overrides)
        /\ Len(anIR.overrideTokens[e].value) > 0
    /\ LET blocks == toCssBlocks(anIR, NoCssConfig, 0)
       IN  Cardinality({i \in DOMAIN blocks : blocks[i].kind = "override"})
                = Len(anIR.overrideTokens)

\* C28 (as stated): in every IR generate returns, modes.time.overrides is empty and
\* every key of overrideTokens is an override of the color or of the size category and
\* has at least one token, so toCss renders one block for every overrideTokens entry.
C28_EntriesCategorized ==
    [][(pc = "assemble" /\ pc' = "returned") => EntriesCategorized(ir')]_vars

DefaultNameOf(ds, f) ==
    IF HasFamily(ds, f) THEN ds[f].modes[ExpectedDefault(ds[f].modes)].name ELSE ""

\* C29: in every returned IR modes.size.default is the name of the spacing family's
\* default mode, whatever the default modes of gap, typography, border radius and border
\* width are called, and the empty string without spacing; modes.color.default and
\* modes.time.default are the names of the default color and time modes, or the empty
\* string when the family is absent.
C29_CategoryDefaults ==
    Returned =>
        /\ ir.modes.size.default = DefaultNameOf(designSystem, "spacing")
        /\ ir.modes.color.default = DefaultNameOf(designSystem, "colors")
        /\ ir.modes.time.default = DefaultNameOf(designSystem, "time")

\* an IR without spacing but with typography and border width has been returned, and
\* one whose spacing default mode is not called as the typography default mode is
C29_Witness ==
    /\ Returned
    /\ HasFamily(designSystem, "typography")
    /\ \/ /\ ~HasFamily(designSystem, "spacing") /\ HasWidth(designSystem)
          /\ ~HasFamily(designSystem, "time")
          /\ ir.modes.size.default = "" /\ ir.modes.time.default = ""
          /\ ir.modes.size.overrides # <<>>
       \/ /\ HasFamily(designSystem, "spacing") /\ HasFamily(designSystem, "gap")
          /\ ir.modes.size.default = "small"
          /\ DefaultNameOf(designSystem, "typography") = "default"
          /\ DefaultNameOf(designSystem, "gap") = "default"

-----------------------------------------------------------------------------
(* Calls of validateLuminance *)

MaxLum == 3

\* the state in which validateLuminance is called and generate is not
LuminanceCalled(colors, cfg) ==
    /\ designSystem = <<>>
    /\ userConfig = NoUserConfig
    /\ pc = "idle"
    /\ error = NoError
    /\ config = NoConfig
    /\ colorResult = NotRun
    /\ spacingResult = NotRun
    /\ gapResult = NotRun
    /\ typographyResult = NotRun
    /\ borderRadiusResult = NotRun
    /\ borderWidthResult = NotRun
    /\ timeResult = NotRun
    /\ ir = NoIR
    /\ emptyResultOverrides = <<>>
    /\ irShared = {}
    /\ kept = NoIR
    /\ mutated = FALSE
    /\ calls = 0
    /\ cssConfig = NoCssConfig
    /\ cssBlocks = <<>>
    /\ css = NoCss
    /\ cssBefore = NoCss
    /\ now = 0
    /\ lumColors = colors
    /\ lumConfig = cfg
    /\ lumResult = NotRun

\* a color map entry for a key: no entry, an undefined color, or a color of some
\* luminance
ColorChoices(key) ==
    {<<>>, <<Entry(key, <<>>)>>} \cup {<<Entry(key, <<[l |-> n]>>)>> : n \in 0..MaxLum}

LuminanceColors ==
    {a \o b \o c : a \in ColorChoices("bg"), b \in ColorChoices("ev"), c \in ColorChoices("ink")}

\* groups that are empty, name missing colors, repeat a key or share a key
KeyLists ==
    {<<>>, <<"bg">>, <<"ink">>, <<"bg", "ev">>, <<"ev", "ink">>, <<"ink", "ink", "ghost">>}

LuminanceConfigs ==
    {[polarity |-> p, minDelta |-> d, backgroundColors |-> bg, foregroundColors |-> fg] :
        p \in {"negative", "positive"}, d \in 0..MaxLum, bg \in KeyLists, fg \in KeyLists}

InitLuminance ==
    \E colors \in LuminanceColors, cfg \in LuminanceConfigs : LuminanceCalled(colors, cfg)

SpecLuminance == InitLuminance /\ [][ValidateLuminance]_vars

-----------------------------------------------------------------------------
(* Claims about validateLuminance *)

LuminanceDone == lumResult # NotRun

\* the luminances of the colors a group names that are defined
DefinedIn(keys) ==
    {Get(lumColors, k)[1].l : k \in {x \in Range(keys) : Has(lumColors, x) /\ Get(lumColors, x) # <<>>}}

DefinedKeys(keys) ==
    {k \in Range(keys) : Has(lumColors, k) /\ Get(lumColors, k) # <<>>}

Greatest(ns) == CHOOSE n \in ns : \A m \in ns : m <= n
Least(ns) == CHOOSE n \in ns : \A m \in ns : n <= m

BothGroupsDefined ==
    DefinedIn(lumConfig.backgroundColors) # {} /\ DefinedIn(lumConfig.foregroundColors) # {}

\* C24: with a defined color in both groups, actualDelta is min(foreground L) -
\* max(background L) under negative polarity and min(background L) - max(foreground L)
\* under positive polarity; deltaValid holds exactly when actualDelta >= minDelta; the
\* boundaries are background = minFg - minDelta (max) and foreground = maxBg + minDelta
\* (min) under negative polarity, background = maxFg + minDelta (min) and foreground =
\* minBg - minDelta (max) under positive polarity.
C24_DeltaAndBoundaries ==
    (LuminanceDone /\ BothGroupsDefined) =>
        LET bg == DefinedIn(lumConfig.backgroundColors)
            fg == DefinedIn(lumConfig.foregroundColors)
            minDelta == lumConfig.minDelta
        IN  /\ lumResult.deltaValid = (lumResult.actualDelta >= minDelta)
            /\ lumResult.requiredDelta = minDelta
            /\ IF lumConfig.polarity = "negative"
               THEN /\ lumResult.actualDelta = Least(fg) - Greatest(bg)
                    /\ lumResult.backgroundConstraint = Least(fg) - minDelta
                    /\ lumResult.backgroundConstraintType = "max"
                    /\ lumResult.foregroundConstraint = Greatest(bg) + minDelta
                    /\ lumResult.foregroundConstraintType = "min"
               ELSE /\ lumResult.actualDelta = Least(bg) - Greatest(fg)
                    /\ lumResult.backgroundConstraint = Greatest(fg) + minDelta
                    /\ lumResult.backgroundConstraintType = "min"
                    /\ lumResult.foregroundConstraint = Least(bg) - minDelta
                    /\ lumResult.foregroundConstraintType = "max"

\* under positive polarity two backgrounds and two foregrounds of different luminances
\* have been validated and the delta is met
C24_Witness ==
    /\ LuminanceDone
    /\ lumConfig.polarity = "positive"
    /\ Cardinality(DefinedIn(lumConfig.backgroundColors)) = 2
    /\ DefinedIn(lumConfig.foregroundColors) = {0}
    /\ lumConfig.minDelta > 0
    /\ lumResult.deltaValid
    /\ lumResult.actualDelta < MaxLum

\* C25: validateLuminance returns for every input; a key whose color is absent or
\* undefined takes no part in its group's min and max and has no diagnostic, every
\* defined key of a group has one when both groups have a defined color, and when a
\* group has no defined color the result is deltaValid = false, actualDelta = 0,
\* requiredDelta = minDelta and an empty diagnostics map.
C25_MissingColors ==
    LuminanceDone =>
        /\ \A e \in DOMAIN lumResult.colors :
                lumResult.colors[e].key \in
                    DefinedKeys(lumConfig.backgroundColors \o lumConfig.foregroundColors)
        /\ IF BothGroupsDefined
           THEN /\ \A k \in DefinedKeys(lumConfig.backgroundColors \o lumConfig.foregroundColors) :
                        Has(lumResult.colors, k)
                /\ LET extremes ==
                        IF lumConfig.polarity = "negative"
                        THEN Least(DefinedIn(lumConfig.foregroundColors))
                                - Greatest(DefinedIn(lumConfig.backgroundColors))
                        ELSE Least(DefinedIn(lumConfig.backgroundColors))
                                - Greatest(DefinedIn(lumConfig.foregroundColors))
                   IN  lumResult.actualDelta = extremes
           ELSE /\ lumResult.deltaValid = FALSE
                /\ lumResult.actualDelta = 0
                /\ lumResult.requiredDelta = lumConfig.minDelta
                /\ lumResult.colors = <<>>

\* a group naming an undefined color and a defined one has been validated against a
\* group naming a key that is not in the color map at all
C25_Witness ==
    /\ LuminanceDone
    /\ lumConfig.backgroundColors = <<"bg", "ev">>
    /\ Has(lumColors, "bg") /\ Get(lumColors, "bg") = <<>>
    /\ Has(lumColors, "ev") /\ Get(lumColors, "ev") # <<>>
    /\ lumConfig.foregroundColors = <<"ink", "ink", "ghost">>
    /\ Has(lumColors, "ink") /\ Get(lumColors, "ink") # <<>>
    /\ Len(lumResult.colors) = 2
    /\ lumResult.deltaValid

\* the headrooms of the diagnostics of one group
HeadroomsOf(group) ==
    {lumResult.colors[e].value.headroom :
        e \in {x \in DOMAIN lumResult.colors : lumResult.colors[x].value.group = group}}

AllValidIffHeadroom ==
    lumResult.deltaValid = (\A e \in DOMAIN lumResult.colors :
                                lumResult.colors[e].value.headroom >= 0)

SmallestHeadroomIs(group, n) == n \in HeadroomsOf(group) /\ \A h \in HeadroomsOf(group) : n <= h

\* the signed distance of a diagnostic from the boundary of its group, positive on the
\* allowed side
BoundaryDistance(diagnostic) ==
    LET background == diagnostic.group = "background"
        constraint == IF background THEN lumResult.backgroundConstraint
                      ELSE lumResult.foregroundConstraint
        type == IF background THEN lumResult.backgroundConstraintType
                ELSE lumResult.foregroundConstraintType
    IN  IF type = "max" THEN constraint - diagnostic.luminance
        ELSE diagnostic.luminance - constraint

HeadroomIsDistance ==
    \A e \in DOMAIN lumResult.colors :
        lumResult.colors[e].value.headroom = BoundaryDistance(lumResult.colors[e].value)

SharedKey ==
    DefinedKeys(lumConfig.backgroundColors) \cap Range(lumConfig.foregroundColors) # {}

====
